---------------------------- MODULE Spec2Model ----------------------------
(***************************************************************************)
(* EmotionCrypt (src/emotion_cipher.py): EmotionDetector and EmotionCipher.*)
(*                                                                         *)
(* Text is a sequence of Unicode code points, bytes are 0..255, a          *)
(* confidence is a double (see FloatAdd below).                            *)
(* A call that reaches the remote backend waits there for the answer       *)
(* (generate_content, line 153): it is in flight, and calls of other       *)
(* threads on the same cipher start and return meanwhile.                  *)
(* The cryptography library (Fernet, PBKDF2) and hashlib are not part of   *)
(* the repository; they are modelled by their documented contract at the   *)
(* call sites, with short keys, nonces and tags in place of the real ones. *)
(***************************************************************************)
EXTENDS Integers, Sequences, FiniteSets, TLC

(***************************************************************************)
(* Bounds of the model.                                                    *)
(***************************************************************************)
MaxMsgLen == 1
MaxNonce == 1
\* the threads that call one cipher
MaxThreads == 2

(***************************************************************************)
(* Generic helpers.                                                        *)
(***************************************************************************)
RECURSIVE SeqsUpTo(_, _)
SeqsUpTo(S, n) ==
    IF n = 0 THEN {<<>>}
    ELSE LET shorter == SeqsUpTo(S, n - 1)
         IN  shorter \cup {Append(s, x) : s \in {t \in shorter : Len(t) = n - 1}, x \in S}

Range(s) == {s[i] : i \in 1..Len(s)}

RECURSIVE SumSeq(_)
SumSeq(s) == IF Len(s) = 0 THEN 0 ELSE s[1] + SumSeq(Tail(s))

(***************************************************************************)
(* str.encode() / bytes.decode(): UTF-8.  encode raises UnicodeEncodeError *)
(* on a lone surrogate (U+D800..U+DFFF); decode raises UnicodeDecodeError  *)
(* on an ill-formed sequence.                                              *)
(***************************************************************************)
IsSurrogate(cp) == cp >= 55296 /\ cp <= 57343

Utf8Char(cp) ==
    IF cp < 128 THEN <<cp>>
    ELSE IF cp < 2048 THEN <<192 + (cp \div 64), 128 + (cp % 64)>>
    ELSE IF cp < 65536 THEN <<224 + (cp \div 4096), 128 + ((cp \div 64) % 64), 128 + (cp % 64)>>
    ELSE <<240 + (cp \div 262144), 128 + ((cp \div 4096) % 64),
           128 + ((cp \div 64) % 64), 128 + (cp % 64)>>

RECURSIVE Utf8Bytes(_)
Utf8Bytes(str) == IF Len(str) = 0 THEN <<>> ELSE Utf8Char(str[1]) \o Utf8Bytes(Tail(str))

\* str.encode(): [ok, bytes]
StrEncode(str) ==
    IF \E i \in 1..Len(str) : IsSurrogate(str[i])
    THEN [ok |-> FALSE, bytes |-> <<>>]
    ELSE [ok |-> TRUE, bytes |-> Utf8Bytes(str)]

IsCont(b) == b >= 128 /\ b <= 191

RECURSIVE Utf8Parse(_, _)
\* bytes.decode(): [ok, str]; acc is the text decoded so far
Utf8Parse(b, acc) ==
    IF Len(b) = 0 THEN [ok |-> TRUE, str |-> acc]
    ELSE IF b[1] < 128 THEN Utf8Parse(Tail(b), Append(acc, b[1]))
    ELSE IF b[1] >= 194 /\ b[1] <= 223 /\ Len(b) >= 2 /\ IsCont(b[2])
         THEN Utf8Parse(SubSeq(b, 3, Len(b)), Append(acc, (b[1] - 192) * 64 + (b[2] - 128)))
    ELSE IF b[1] >= 224 /\ b[1] <= 239 /\ Len(b) >= 3 /\ IsCont(b[2]) /\ IsCont(b[3])
            /\ LET cp == (b[1] - 224) * 4096 + (b[2] - 128) * 64 + (b[3] - 128)
               IN  cp >= 2048 /\ ~IsSurrogate(cp)
         THEN Utf8Parse(SubSeq(b, 4, Len(b)),
                        Append(acc, (b[1] - 224) * 4096 + (b[2] - 128) * 64 + (b[3] - 128)))
    ELSE IF b[1] >= 240 /\ b[1] <= 244 /\ Len(b) >= 4 /\ IsCont(b[2]) /\ IsCont(b[3]) /\ IsCont(b[4])
            /\ LET cp == (b[1] - 240) * 262144 + (b[2] - 128) * 4096 + (b[3] - 128) * 64 + (b[4] - 128)
               IN  cp >= 65536 /\ cp <= 1114111
         THEN Utf8Parse(SubSeq(b, 5, Len(b)),
                        Append(acc, (b[1] - 240) * 262144 + (b[2] - 128) * 4096
                                    + (b[3] - 128) * 64 + (b[4] - 128)))
    ELSE [ok |-> FALSE, str |-> <<>>]

BytesDecode(b) == Utf8Parse(b, <<>>)

(***************************************************************************)
(* base64.urlsafe_b64encode / base64.urlsafe_b64decode.  Text is a         *)
(* sequence of ASCII codes.  The decoder is Python's non-validating one    *)
(* (binascii.a2b_base64, strict_mode off): characters outside the alphabet *)
(* are skipped, '+' and '/' are accepted beside '-' and '_', the bits left *)
(* over in the last data character are dropped, and input after a complete *)
(* pad sequence is not read.                                               *)
(***************************************************************************)
PadChar == 61

B64Char(v) ==
    IF v < 26 THEN 65 + v
    ELSE IF v < 52 THEN 97 + (v - 26)
    ELSE IF v < 62 THEN 48 + (v - 52)
    ELSE IF v = 62 THEN 45 ELSE 95

\* the 6-bit value of a character, 64 when it is not in the alphabet
B64Val(c) ==
    IF c >= 65 /\ c <= 90 THEN c - 65
    ELSE IF c >= 97 /\ c <= 122 THEN c - 71
    ELSE IF c >= 48 /\ c <= 57 THEN c + 4
    ELSE IF c = 45 \/ c = 43 THEN 62
    ELSE IF c = 95 \/ c = 47 THEN 63
    ELSE 64

RECURSIVE urlsafe_b64encode(_)
urlsafe_b64encode(b) ==
    IF Len(b) = 0 THEN <<>>
    ELSE IF Len(b) = 1
         THEN <<B64Char(b[1] \div 4), B64Char((b[1] % 4) * 16), PadChar, PadChar>>
    ELSE IF Len(b) = 2
         THEN <<B64Char(b[1] \div 4), B64Char((b[1] % 4) * 16 + (b[2] \div 16)),
                B64Char((b[2] % 16) * 4), PadChar>>
    ELSE <<B64Char(b[1] \div 4), B64Char((b[1] % 4) * 16 + (b[2] \div 16)),
           B64Char((b[2] % 16) * 4 + (b[3] \div 64)), B64Char(b[3] % 64)>>
         \o urlsafe_b64encode(SubSeq(b, 4, Len(b)))

RECURSIVE A2bBase64(_, _, _, _, _, _)
\* the decoding loop: i the read position, quad the position in the current
\* group of four, left the bits carried over, pads the pad characters seen
\* in a row, out the bytes written.  [ok, bytes]; ok FALSE is binascii.Error
A2bBase64(s, i, quad, left, pads, out) ==
    IF i > Len(s)
    THEN [ok |-> quad = 0, bytes |-> IF quad = 0 THEN out ELSE <<>>]
    ELSE IF s[i] = PadChar
         THEN IF quad >= 2 /\ quad + pads + 1 >= 4
              THEN [ok |-> TRUE, bytes |-> out]
              ELSE A2bBase64(s, i + 1, quad, left, IF quad >= 2 THEN pads + 1 ELSE pads, out)
    ELSE IF B64Val(s[i]) = 64
         THEN A2bBase64(s, i + 1, quad, left, pads, out)
    ELSE LET v == B64Val(s[i])
         IN  IF quad = 0 THEN A2bBase64(s, i + 1, 1, v, 0, out)
             ELSE IF quad = 1
                  THEN A2bBase64(s, i + 1, 2, v % 16, 0, Append(out, left * 4 + (v \div 16)))
             ELSE IF quad = 2
                  THEN A2bBase64(s, i + 1, 3, v % 4, 0, Append(out, left * 16 + (v \div 4)))
             ELSE A2bBase64(s, i + 1, 0, 0, 0, Append(out, left * 64 + v))

urlsafe_b64decode(s) == A2bBase64(s, 1, 0, 0, 0, <<>>)

(***************************************************************************)
(* hashlib.sha256: a 32-byte digest of a byte string, and its hexdigest.   *)
(* The digest is a stand-in mixing function; only "equal inputs give equal *)
(* digests" is relied on.                                                  *)
(***************************************************************************)
RECURSIVE Mix(_, _, _)
Mix(b, i, j) == IF j > Len(b) THEN 0 ELSE (b[j] + 1) * (i + 2 * j + 1) + Mix(b, i, j + 1)

sha256_digest(b) == [i \in 1..32 |-> (Len(b) * 31 + i * 17 + Mix(b, i, 1)) % 256]

HexChar(d) == IF d < 10 THEN 48 + d ELSE 87 + d

sha256_hexdigest(b) ==
    LET digest == sha256_digest(b)
    IN  [k \in 1..64 |-> HexChar(IF k % 2 = 1 THEN digest[(k + 1) \div 2] \div 16
                                               ELSE digest[(k + 1) \div 2] % 16)]

\* a variant that cuts the hexdigest at 15 characters
message_hash_15(bytes) == SubSeq(sha256_hexdigest(bytes), 1, 15)

\* hashlib.sha256(message.encode()).hexdigest()[:16]
message_hash(bytes) == SubSeq(sha256_hexdigest(bytes), 1, 16)

(***************************************************************************)
(* EmotionCipher._create_cipher_suite: PBKDF2 with the fixed salt turns    *)
(* the password into the Fernet key; distinct passwords give distinct keys.*)
(***************************************************************************)
Passwords == {1, 2}

create_cipher_suite(password) == (password * 37 + 11) % 256

(***************************************************************************)
(* Fernet.  A token is the url-safe base64 text of                         *)
(*     version 0x80 | nonce (time stamp and IV) | ciphertext | HMAC tag.   *)
(* decrypt base64-decodes the token with the same non-validating decoder,  *)
(* checks the version byte and the tag, and decrypts.  The HMAC is taken   *)
(* to be unforgeable: a tag verifies only for (key, parts) that encrypt    *)
(* signed (the set signed).                                                *)
(***************************************************************************)
Nonces == 0..MaxNonce

FernetCipherBytes(key, nonce, pt) ==
    [i \in 1..Len(pt) |-> (pt[i] + key + 17 * nonce + i) % 256]

FernetPlainBytes(key, nonce, ct) ==
    [i \in 1..Len(ct) |-> (ct[i] + 512 - ((key + 17 * nonce + i) % 256)) % 256]

FernetParts(key, nonce, pt) == <<128, nonce>> \o FernetCipherBytes(key, nonce, pt)

FernetTag(key, parts) == <<(SumSeq(parts) + 3 * key + Len(parts)) % 256>>

\* Fernet.encrypt(data) with the fresh nonce it draws: the token text
FernetEncrypt(key, nonce, pt) ==
    LET parts == FernetParts(key, nonce, pt)
    IN  urlsafe_b64encode(parts \o FernetTag(key, parts))

\* the checks of Fernet.decrypt on the decoded token data
FernetVerify(key, data, signedSet) ==
    IF Len(data) < 3 THEN [ok |-> FALSE, bytes |-> <<>>]
    ELSE IF data[1] # 128 THEN [ok |-> FALSE, bytes |-> <<>>]
    ELSE IF \/ <<data[Len(data)]>> # FernetTag(key, SubSeq(data, 1, Len(data) - 1))
            \/ <<key, SubSeq(data, 1, Len(data) - 1)>> \notin signedSet
         THEN [ok |-> FALSE, bytes |-> <<>>]
    ELSE [ok |-> TRUE, bytes |-> FernetPlainBytes(key, data[2], SubSeq(data, 3, Len(data) - 1))]

\* Fernet.decrypt(token): [ok, bytes]; ok FALSE is InvalidToken
FernetDecrypt(key, token, signedSet) ==
    IF ~urlsafe_b64decode(token).ok THEN [ok |-> FALSE, bytes |-> <<>>]
    ELSE FernetVerify(key, urlsafe_b64decode(token).bytes, signedSet)

(***************************************************************************)
(* str.lower() and str.capitalize(), for the ASCII letters (the texts and  *)
(* labels of the model hold no other cased character).                     *)
(***************************************************************************)
LowerChar(c) == IF c >= 65 /\ c <= 90 THEN c + 32 ELSE c
UpperChar(c) == IF c >= 97 /\ c <= 122 THEN c - 32 ELSE c

Lower(str) == [i \in 1..Len(str) |-> LowerChar(str[i])]

Capitalize(str) == [i \in 1..Len(str) |-> IF i = 1 THEN UpperChar(str[1]) ELSE LowerChar(str[i])]

\* Python's "needle in haystack" on strings
Contains(haystack, needle) ==
    \E i \in 0..(Len(haystack) - Len(needle)) :
        \A j \in 1..Len(needle) : haystack[i + j] = needle[j]

(***************************************************************************)
(* EmotionDetector._normalize_emotion_name                                 *)
(***************************************************************************)
L_Joy == <<74, 111, 121>>   \* "Joy"
L_Excitement == <<69, 120, 99, 105, 116, 101, 109, 101, 110, 116>>   \* "Excitement"
L_Sadness == <<83, 97, 100, 110, 101, 115, 115>>   \* "Sadness"
L_Anger == <<65, 110, 103, 101, 114>>   \* "Anger"
L_Anxiety == <<65, 110, 120, 105, 101, 116, 121>>   \* "Anxiety"
L_Fear == <<70, 101, 97, 114>>   \* "Fear"
L_Surprise == <<83, 117, 114, 112, 114, 105, 115, 101>>   \* "Surprise"
L_Love == <<76, 111, 118, 101>>   \* "Love"
L_Neutral == <<78, 101, 117, 116, 114, 97, 108>>   \* "Neutral"
emotion_mapping ==
       (<<106, 111, 121>> :> L_Joy)   \* "joy"
    @@ (<<104, 97, 112, 112, 105, 110, 101, 115, 115>> :> L_Joy)   \* "happiness"
    @@ (<<104, 97, 112, 112, 121>> :> L_Joy)   \* "happy"
    @@ (<<101, 120, 99, 105, 116, 101, 109, 101, 110, 116>> :> L_Excitement)   \* "excitement"
    @@ (<<101, 120, 99, 105, 116, 101, 100>> :> L_Excitement)   \* "excited"
    @@ (<<115, 97, 100, 110, 101, 115, 115>> :> L_Sadness)   \* "sadness"
    @@ (<<115, 97, 100>> :> L_Sadness)   \* "sad"
    @@ (<<97, 110, 103, 101, 114>> :> L_Anger)   \* "anger"
    @@ (<<97, 110, 103, 114, 121>> :> L_Anger)   \* "angry"
    @@ (<<97, 110, 120, 105, 101, 116, 121>> :> L_Anxiety)   \* "anxiety"
    @@ (<<97, 110, 120, 105, 111, 117, 115>> :> L_Anxiety)   \* "anxious"
    @@ (<<102, 101, 97, 114>> :> L_Fear)   \* "fear"
    @@ (<<97, 102, 114, 97, 105, 100>> :> L_Fear)   \* "afraid"
    @@ (<<115, 117, 114, 112, 114, 105, 115, 101>> :> L_Surprise)   \* "surprise"
    @@ (<<115, 117, 114, 112, 114, 105, 115, 101, 100>> :> L_Surprise)   \* "surprised"
    @@ (<<108, 111, 118, 101>> :> L_Love)   \* "love"
    @@ (<<110, 101, 117, 116, 114, 97, 108>> :> L_Neutral)   \* "neutral"

normalize_emotion_name(emotion) ==
    LET emotion_lower == Lower(emotion)
    IN  IF emotion_lower \in DOMAIN emotion_mapping
        THEN emotion_mapping[emotion_lower]
        ELSE Capitalize(emotion)

(***************************************************************************)
(* Confidences are Python floats (IEEE 754 doubles).  A double that is not *)
(* zero is kept as its sign, its mantissa of 53 bits and its exponent: its *)
(* value is mant * 2^exp, negated when neg.  The mantissa is a natural     *)
(* number too wide for one integer here; it is kept as its digits in base  *)
(* 2^15, lowest first.  Sums, products and quotients are rounded as the    *)
(* machine rounds them: to the nearest double, to the even mantissa of two *)
(* equally near.  Infinities, NaN, denormal numbers and the sign of zero   *)
(* are left out.                                                           *)
(***************************************************************************)
\* bits of one digit of a mantissa
LimbBits == 15

Base == 32768

\* bits of the mantissa of a double
MantBits == 53

\* a natural number without leading zero digits (its highest digits are last)
RECURSIVE BStrip(_)
BStrip(a) == IF Len(a) > 0 /\ a[Len(a)] = 0 THEN BStrip(SubSeq(a, 1, Len(a) - 1)) ELSE a

Limb(a, i) == IF i <= Len(a) THEN a[i] ELSE 0

RECURSIVE BAddFrom(_, _, _, _)
BAddFrom(a, b, i, carry) ==
    IF i > Len(a) /\ i > Len(b)
    THEN IF carry = 0 THEN <<>> ELSE <<carry>>
    ELSE <<(Limb(a, i) + Limb(b, i) + carry) % Base>>
         \o BAddFrom(a, b, i + 1, (Limb(a, i) + Limb(b, i) + carry) \div Base)

\* a + b
BAdd(a, b) == BAddFrom(a, b, 1, 0)

RECURSIVE BSubFrom(_, _, _, _)
BSubFrom(a, b, i, borrow) ==
    IF i > Len(a) THEN <<>>
    ELSE <<(Base + a[i] - Limb(b, i) - borrow) % Base>>
         \o BSubFrom(a, b, i + 1, IF a[i] - Limb(b, i) - borrow < 0 THEN 1 ELSE 0)

\* a - b, for a >= b
BSub(a, b) == BStrip(BSubFrom(a, b, 1, 0))

RECURSIVE BCmpAt(_, _, _)
BCmpAt(a, b, i) ==
    IF i = 0 THEN 0
    ELSE IF a[i] < b[i] THEN 0 - 1
    ELSE IF a[i] > b[i] THEN 1
    ELSE BCmpAt(a, b, i - 1)

\* -1, 0 or 1 as a is less than, equal to or greater than b
BCmp(a, b) ==
    IF Len(a) < Len(b) THEN 0 - 1
    ELSE IF Len(a) > Len(b) THEN 1
    ELSE BCmpAt(a, b, Len(a))

RECURSIVE BMulFrom(_, _, _, _)
BMulFrom(a, k, i, carry) ==
    IF i > Len(a)
    THEN IF carry = 0 THEN <<>> ELSE <<carry>>
    ELSE <<(a[i] * k + carry) % Base>> \o BMulFrom(a, k, i + 1, (a[i] * k + carry) \div Base)

\* a * k, for one digit k
BMulSmall(a, k) == BStrip(BMulFrom(a, k, 1, 0))

RECURSIVE BMulAt(_, _, _)
BMulAt(a, b, i) ==
    IF i > Len(b) THEN <<>>
    ELSE BAdd([j \in 1..(i - 1) |-> 0] \o BMulSmall(a, b[i]), BMulAt(a, b, i + 1))

\* a * b
BMul(a, b) == BStrip(BMulAt(a, b, 1))

RECURSIVE BDivSmallAt(_, _, _, _)
BDivSmallAt(a, k, i, rem) ==
    IF i = 0 THEN <<>>
    ELSE BDivSmallAt(a, k, i - 1, (rem * Base + a[i]) % k) \o <<(rem * Base + a[i]) \div k>>

\* a * 2^n
BShl(a, n) ==
    IF a = <<>> THEN <<>>
    ELSE [j \in 1..(n \div LimbBits) |-> 0] \o BMulSmall(a, 2 ^ (n % LimbBits))

\* a \div 2^n
BShr(a, n) ==
    IF n \div LimbBits >= Len(a) THEN <<>>
    ELSE BStrip(BDivSmallAt(SubSeq(a, n \div LimbBits + 1, Len(a)), 2 ^ (n % LimbBits),
                            Len(a) - n \div LimbBits, 0))

\* the number of bits of a
BitLen(a) ==
    IF a = <<>> THEN 0
    ELSE LimbBits * (Len(a) - 1)
         + (CHOOSE n \in 1..LimbBits : 2 ^ (n - 1) <= a[Len(a)] /\ a[Len(a)] < 2 ^ n)

\* bit n of a, the lowest being bit 0
BTestBit(a, n) == (Limb(a, n \div LimbBits + 1) \div 2 ^ (n % LimbBits)) % 2 = 1

\* the n lowest bits of a are 0
BLowZero(a, n) ==
    /\ \A i \in 1..(n \div LimbBits) : Limb(a, i) = 0
    /\ Limb(a, n \div LimbBits + 1) % 2 ^ (n % LimbBits) = 0

\* a natural number below 2^31 as digits
RECURSIVE BFromNat(_)
BFromNat(n) == IF n = 0 THEN <<>> ELSE <<n % Base>> \o BFromNat(n \div Base)

\* leading is the two highest digits of r over the highest digit of b
BEstimateOf(leading) == IF leading < Base - 1 THEN leading ELSE Base - 1

\* r \div b with the leading digits alone, for b whose highest digit is
\* Base \div 2 or more and r below b * Base: r \div b or up to 2 more
BEstimate(r, b) ==
    BEstimateOf((Limb(r, Len(b) + 1) * Base + Limb(r, Len(b))) \div b[Len(b)])

\* r \div b, the estimate being it or up to 2 more
BDigitFrom(r, b, estimate) ==
    IF BCmp(BMulSmall(b, estimate), r) <= 0 THEN estimate
    ELSE IF BCmp(BMulSmall(b, estimate - 1), r) <= 0 THEN estimate - 1
    ELSE estimate - 2

\* r \div b: one digit
BDigit(r, b) == BDigitFrom(r, b, BEstimate(r, b))

RECURSIVE BDivAt(_, _, _, _, _)
\* the digit d of the quotient is found: on to the digits below, with what
\* is left of x
BDivNext(a, b, i, x, q, d) ==
    IF d = 0 THEN BDivAt(a, b, i - 1, x, <<0>> \o q)
    ELSE BDivAt(a, b, i - 1, BSub(x, BMulSmall(b, d)), <<d>> \o q)

BDivFrom(a, b, i, x, q) == BDivNext(a, b, i, x, q, BDigit(x, b))

\* the digits i..1 of a still to come, r what is left of the digits above
\* them, q the digits of the quotient so far: <<quotient, remainder>>
BDivAt(a, b, i, r, q) ==
    IF i = 0 THEN <<BStrip(q), r>> ELSE BDivFrom(a, b, i, BStrip(<<a[i]>> \o r), q)

\* a and b with the highest digit of b Base \div 2 or more: the Len(b) - 1
\* highest digits of a are below b
BDivLong(a, b) ==
    IF Len(a) < Len(b) THEN <<<<>>, a>>
    ELSE BDivAt(a, b, Len(a) - Len(b) + 1, BStrip(SubSeq(a, Len(a) - Len(b) + 2, Len(a))), <<>>)

BDivShiftBack(qr, shift) == <<qr[1], BShr(qr[2], shift)>>

BDivShifted(a, b, shift) ==
    BDivShiftBack(BDivLong(BShl(a, shift), BShl(b, shift)), shift)

\* <<a \div b, a % b>>, for b that is not 0: both are shifted to bring the
\* highest digit of b to Base \div 2 or more
BDivMod(a, b) == BDivShifted(a, b, LimbBits * Len(b) - BitLen(b))

\* the double 0.0
Zero == [neg |-> FALSE, exp |-> 0, mant |-> <<>>]

IsZero(x) == x.mant = <<>>

\* a mantissa r of 53 bits, or of 54 after a carry
Normal(neg, r, e) ==
    IF BitLen(r) > MantBits
    THEN [neg |-> neg, exp |-> e + 1, mant |-> BShr(r, 1)]
    ELSE [neg |-> neg, exp |-> e, mant |-> r]

\* the s lowest bits of m are cut off (a little more than m when sticky):
\* up when they are more than half of the last place kept, or half of it
\* and the mantissa kept is odd
RoundsUp(m, s, sticky) ==
    /\ BTestBit(m, s - 1)
    /\ \/ sticky
       \/ ~BLowZero(m, s - 1)
       \/ BTestBit(m, s)

RoundTo(neg, q, e, up) == IF up THEN Normal(neg, BAdd(q, <<1>>), e) ELSE Normal(neg, q, e)

RoundBy(neg, m, e, sticky, s) ==
    IF m = <<>> THEN Zero
    ELSE IF s <= 0 THEN [neg |-> neg, exp |-> e + s, mant |-> BShl(m, 0 - s)]
    ELSE RoundTo(neg, BShr(m, s), e + s, RoundsUp(m, s, sticky))

\* the double nearest to m * 2^e (a little more when sticky), negated when
\* neg; of two equally near the one with the even mantissa
Round(neg, m, e, sticky) == RoundBy(neg, m, e, sticky, BitLen(m) - MantBits)

\* float(n) of an integer n
FromInt(n) == Round(n < 0, BFromNat(IF n < 0 THEN 0 - n ELSE n), 0, FALSE)

\* -x
FloatNeg(x) == IF IsZero(x) THEN x ELSE [x EXCEPT !.neg = ~x.neg]

\* exponents further apart than this: the smaller number is less than any
\* rounding of the greater
FarApart == 64

\* x * 2^e and y * 2^e with the signs a_neg and b_neg; c compares x with y
AddSigned(a_neg, x, b_neg, y, e, c) ==
    Round(IF a_neg = b_neg \/ c > 0 THEN a_neg ELSE b_neg,
          IF a_neg = b_neg THEN BAdd(x, y) ELSE IF c > 0 THEN BSub(x, y) ELSE BSub(y, x),
          e, FALSE)

AddShifted(a_neg, x, b_neg, y, e) == AddSigned(a_neg, x, b_neg, y, e, BCmp(x, y))

AddAt(a, b, e) == AddShifted(a.neg, BShl(a.mant, a.exp - e), b.neg, BShl(b.mant, b.exp - e), e)

\* a + b in floats
FloatAdd(a, b) ==
    IF IsZero(a) THEN b
    ELSE IF IsZero(b) THEN a
    ELSE IF a.exp - b.exp > FarApart THEN a
    ELSE IF b.exp - a.exp > FarApart THEN b
    ELSE AddAt(a, b, IF a.exp < b.exp THEN a.exp ELSE b.exp)

\* a * b in floats
FloatMul(a, b) ==
    IF IsZero(a) \/ IsZero(b) THEN Zero
    ELSE Round(a.neg # b.neg, BMul(a.mant, b.mant), a.exp + b.exp, FALSE)

\* bits of the quotient worked out before it is rounded
QuotientBits == 55

DivRound(neg, qr, e) == Round(neg, qr[1], e, qr[2] # <<>>)

\* a / b in floats, for b that is not zero
FloatDiv(a, b) ==
    IF IsZero(a) THEN Zero
    ELSE DivRound(a.neg # b.neg, BDivMod(BShl(a.mant, QuotientBits), b.mant),
                  a.exp - b.exp - QuotientBits)

\* -1, 0 or 1 as the magnitude of a is less than, equal to or greater than
\* that of b, neither being zero
CmpMagnitude(a, b) ==
    IF a.exp < b.exp THEN 0 - 1
    ELSE IF a.exp > b.exp THEN 1
    ELSE BCmp(a.mant, b.mant)

\* a < b
FloatLess(a, b) ==
    IF IsZero(a) THEN ~IsZero(b) /\ ~b.neg
    ELSE IF IsZero(b) THEN a.neg
    ELSE IF a.neg # b.neg THEN a.neg
    ELSE IF a.neg THEN CmpMagnitude(b, a) < 0
    ELSE CmpMagnitude(a, b) < 0

\* a <= b
FloatLeq(a, b) == a = b \/ FloatLess(a, b)

(***************************************************************************)
(* The doubles that the decimal literals of the code and of the backends'  *)
(* answers denote: each is the double nearest to the decimal.              *)
(***************************************************************************)
\* 0.1, in hexadecimal 0x1.999999999999ap-4
F0_1 == [neg |-> FALSE, exp |-> 0 - 56, mant |-> <<6554, 13107, 26214, 204>>]

\* 0.15, in hexadecimal 0x1.3333333333333p-3
F0_15 == [neg |-> FALSE, exp |-> 0 - 55, mant |-> <<13107, 26214, 19660, 153>>]

\* 0.2, in hexadecimal 0x1.999999999999ap-3
F0_2 == [neg |-> FALSE, exp |-> 0 - 55, mant |-> <<6554, 13107, 26214, 204>>]

\* 0.3, in hexadecimal 0x1.3333333333333p-2
F0_3 == [neg |-> FALSE, exp |-> 0 - 54, mant |-> <<13107, 26214, 19660, 153>>]

\* 0.35, in hexadecimal 0x1.6666666666666p-2
F0_35 == [neg |-> FALSE, exp |-> 0 - 54, mant |-> <<26214, 19660, 6553, 179>>]

\* 0.4, in hexadecimal 0x1.999999999999ap-2
F0_4 == [neg |-> FALSE, exp |-> 0 - 54, mant |-> <<6554, 13107, 26214, 204>>]

\* 0.5, in hexadecimal 0x1.0000000000000p-1
F0_5 == [neg |-> FALSE, exp |-> 0 - 53, mant |-> <<0, 0, 0, 128>>]

\* 0.65, in hexadecimal 0x1.4cccccccccccdp-1
F0_65 == [neg |-> FALSE, exp |-> 0 - 53, mant |-> <<19661, 6553, 13107, 166>>]

\* 0.85, in hexadecimal 0x1.b333333333333p-1
F0_85 == [neg |-> FALSE, exp |-> 0 - 53, mant |-> <<13107, 26214, 19660, 217>>]

\* 0.9, in hexadecimal 0x1.ccccccccccccdp-1
F0_9 == [neg |-> FALSE, exp |-> 0 - 53, mant |-> <<19661, 6553, 13107, 230>>]

\* 0.95, in hexadecimal 0x1.e666666666666p-1
F0_95 == [neg |-> FALSE, exp |-> 0 - 53, mant |-> <<26214, 19660, 6553, 243>>]

\* 1.0, in hexadecimal 0x1.0000000000000p+0
F1_0 == [neg |-> FALSE, exp |-> 0 - 52, mant |-> <<0, 0, 0, 128>>]

\* 1.1, in hexadecimal 0x1.199999999999ap+0
F1_1 == [neg |-> FALSE, exp |-> 0 - 52, mant |-> <<6554, 13107, 26214, 140>>]

\* 1.2, in hexadecimal 0x1.3333333333333p+0
F1_2 == [neg |-> FALSE, exp |-> 0 - 52, mant |-> <<13107, 26214, 19660, 153>>]

\* matches * 0.4 (line 277), for matches below 2^15: the product of the
\* integer and the double, rounded
FloatTimes(matches, x) ==
    IF matches = 0 \/ IsZero(x) THEN Zero
    ELSE Round(x.neg, BMulSmall(x.mant, matches), x.exp, FALSE)

\* x * 0.5 (line 286)
FloatHalf(x) == FloatMul(x, F0_5)

(***************************************************************************)
(* Ordered helpers: Python dicts keep insertion order and list.sort is     *)
(* stable, so score tables are sequences of <<key, value>> pairs and       *)
(* sorting is a stable insertion sort.                                     *)
(***************************************************************************)
\* min(a, b) of two floats
Min(a, b) == IF FloatLess(b, a) THEN b ELSE a

HasKey(d, k) == \E i \in 1..Len(d) : d[i][1] = k

GetKey(d, k) == d[CHOOSE i \in 1..Len(d) : d[i][1] = k][2]

\* d[k] = v
SetKey(d, k, v) ==
    IF HasKey(d, k)
    THEN [i \in 1..Len(d) |-> IF d[i][1] = k THEN <<k, v>> ELSE d[i]]
    ELSE Append(d, <<k, v>>)

\* list.sort with a key of two numbers: s holds <<k1, k2, item>>, ordered
\* by (k1, k2) ascending, items with equal keys in their given order.  The
\* keys are (float, integer) when by_float, (integer, float) otherwise
KeyLess(a, b, by_float) ==
    IF by_float
    THEN FloatLess(a[1], b[1]) \/ (a[1] = b[1] /\ a[2] < b[2])
    ELSE a[1] < b[1] \/ (a[1] = b[1] /\ FloatLess(a[2], b[2]))

InsertSorted(s, x, by_float) ==
    LET later == {i \in 1..Len(s) : KeyLess(x, s[i], by_float)}
        pos == IF later = {} THEN Len(s) + 1 ELSE CHOOSE i \in later : \A j \in later : i <= j
    IN  SubSeq(s, 1, pos - 1) \o <<x>> \o SubSeq(s, pos, Len(s))

RECURSIVE StableSortFrom(_, _, _, _)
StableSortFrom(s, i, acc, by_float) ==
    IF i > Len(s) THEN acc
    ELSE StableSortFrom(s, i + 1, InsertSorted(acc, s[i], by_float), by_float)

StableSort(s, by_float) ==
    LET sorted == StableSortFrom(s, 1, <<>>, by_float) IN [i \in 1..Len(s) |-> sorted[i][3]]

\* sum(1 for w in words if w in text and w not in excluded)
RECURSIVE CountMatches(_, _, _)
CountMatches(words, text, excluded) ==
    IF Len(words) = 0 THEN 0
    ELSE (IF Contains(text, words[1]) /\ words[1] \notin excluded THEN 1 ELSE 0)
         + CountMatches(Tail(words), text, excluded)

(***************************************************************************)
(* EmotionDetector._basic_emotion_detection                                *)
(***************************************************************************)
emotion_keywords ==
    <<
      \* joy: happy, joyful, delighted, pleased, overjoyed, glad, cheerful, ecstatic
      <<<<106, 111, 121>>,
        <<<<104, 97, 112, 112, 121>>,
          <<106, 111, 121, 102, 117, 108>>,
          <<100, 101, 108, 105, 103, 104, 116, 101, 100>>,
          <<112, 108, 101, 97, 115, 101, 100>>,
          <<111, 118, 101, 114, 106, 111, 121, 101, 100>>,
          <<103, 108, 97, 100>>,
          <<99, 104, 101, 101, 114, 102, 117, 108>>,
          <<101, 99, 115, 116, 97, 116, 105, 99>>>>>>,
      \* excitement: excited, thrilled, enthusiastic, eager, pumped, excitement
      <<<<101, 120, 99, 105, 116, 101, 109, 101, 110, 116>>,
        <<<<101, 120, 99, 105, 116, 101, 100>>,
          <<116, 104, 114, 105, 108, 108, 101, 100>>,
          <<101, 110, 116, 104, 117, 115, 105, 97, 115, 116, 105, 99>>,
          <<101, 97, 103, 101, 114>>,
          <<112, 117, 109, 112, 101, 100>>,
          <<101, 120, 99, 105, 116, 101, 109, 101, 110, 116>>>>>>,
      \* sadness: sad, unhappy, depressed, melancholy, down, disappointed, upset, gloomy
      <<<<115, 97, 100, 110, 101, 115, 115>>,
        <<<<115, 97, 100>>,
          <<117, 110, 104, 97, 112, 112, 121>>,
          <<100, 101, 112, 114, 101, 115, 115, 101, 100>>,
          <<109, 101, 108, 97, 110, 99, 104, 111, 108, 121>>,
          <<100, 111, 119, 110>>,
          <<100, 105, 115, 97, 112, 112, 111, 105, 110, 116, 101, 100>>,
          <<117, 112, 115, 101, 116>>,
          <<103, 108, 111, 111, 109, 121>>>>>>,
      \* anger: angry, mad, furious, irritated, annoyed, rage, frustrated, upset
      <<<<97, 110, 103, 101, 114>>,
        <<<<97, 110, 103, 114, 121>>,
          <<109, 97, 100>>,
          <<102, 117, 114, 105, 111, 117, 115>>,
          <<105, 114, 114, 105, 116, 97, 116, 101, 100>>,
          <<97, 110, 110, 111, 121, 101, 100>>,
          <<114, 97, 103, 101>>,
          <<102, 114, 117, 115, 116, 114, 97, 116, 101, 100>>,
          <<117, 112, 115, 101, 116>>>>>>,
      \* anxiety: anxious, anxiety, apprehensive
      <<<<97, 110, 120, 105, 101, 116, 121>>,
        <<<<97, 110, 120, 105, 111, 117, 115>>,
          <<97, 110, 120, 105, 101, 116, 121>>,
          <<97, 112, 112, 114, 101, 104, 101, 110, 115, 105, 118, 101>>>>>>,
      \* fear: worried, afraid, scared, nervous, fearful, concerned
      <<<<102, 101, 97, 114>>,
        <<<<119, 111, 114, 114, 105, 101, 100>>,
          <<97, 102, 114, 97, 105, 100>>,
          <<115, 99, 97, 114, 101, 100>>,
          <<110, 101, 114, 118, 111, 117, 115>>,
          <<102, 101, 97, 114, 102, 117, 108>>,
          <<99, 111, 110, 99, 101, 114, 110, 101, 100>>>>>>,
      \* surprise: surprised, amazed, shocked, astonished, stunned
      <<<<115, 117, 114, 112, 114, 105, 115, 101>>,
        <<<<115, 117, 114, 112, 114, 105, 115, 101, 100>>,
          <<97, 109, 97, 122, 101, 100>>,
          <<115, 104, 111, 99, 107, 101, 100>>,
          <<97, 115, 116, 111, 110, 105, 115, 104, 101, 100>>,
          <<115, 116, 117, 110, 110, 101, 100>>>>>>,
      \* love: love, adore, cherish, fond, affection
      <<<<108, 111, 118, 101>>,
        <<<<108, 111, 118, 101>>,
          <<97, 100, 111, 114, 101>>,
          <<99, 104, 101, 114, 105, 115, 104>>,
          <<102, 111, 110, 100>>,
          <<97, 102, 102, 101, 99, 116, 105, 111, 110>>>>>>,
      \* neutral: 
      <<<<110, 101, 117, 116, 114, 97, 108>>,
        <<>>>>
    >>
\* thrilled, ecstatic, overjoyed: each scores joy and excitement
dual_emotion_keywords ==
    <<<<116, 104, 114, 105, 108, 108, 101, 100>>,
      <<101, 99, 115, 116, 97, 116, 105, 99>>,
      <<111, 118, 101, 114, 106, 111, 121, 101, 100>>>>
dual_emotions == <<<<106, 111, 121>>, <<101, 120, 99, 105, 116, 101, 109, 101, 110, 116>>>>   \* ["joy", "excitement"]
\* "can't wait", "cannot wait", "can not wait", "looking forward"
excitement_phrases ==
    <<<<99, 97, 110, 39, 116, 32, 119, 97, 105, 116>>,
      <<99, 97, 110, 110, 111, 116, 32, 119, 97, 105, 116>>,
      <<99, 97, 110, 32, 110, 111, 116, 32, 119, 97, 105, 116>>,
      <<108, 111, 111, 107, 105, 110, 103, 32, 102, 111, 114, 119, 97, 114, 100>>>>
\* got, received, achieved, succeeded, won, offer, success
positive_outcomes ==
    <<<<103, 111, 116>>,
      <<114, 101, 99, 101, 105, 118, 101, 100>>,
      <<97, 99, 104, 105, 101, 118, 101, 100>>,
      <<115, 117, 99, 99, 101, 101, 100, 101, 100>>,
      <<119, 111, 110>>,
      <<111, 102, 102, 101, 114>>,
      <<115, 117, 99, 99, 101, 115, 115>>>>
\* job, promotion, acceptance, approval
outcome_context ==
    <<<<106, 111, 98>>,
      <<112, 114, 111, 109, 111, 116, 105, 111, 110>>,
      <<97, 99, 99, 101, 112, 116, 97, 110, 99, 101>>,
      <<97, 112, 112, 114, 111, 118, 97, 108>>>>

K_joy == dual_emotions[1]
K_excitement == dual_emotions[2]

\* lines 244-247, 252-255, 264-267: first hit sets the score, later hits add
Bump(scores, emotion, first, inc) ==
    IF ~HasKey(scores, emotion)
    THEN SetKey(scores, emotion, first)
    ELSE SetKey(scores, emotion, Min(FloatAdd(GetKey(scores, emotion), inc), F0_95))

RECURSIVE DualKeywordScores(_, _, _, _)
\* lines 241-247, over the words dual_emotion_keywords
DualKeywordScores(words, text_lower, k, scores) ==
    IF k > Len(words) THEN scores
    ELSE DualKeywordScores(words, text_lower, k + 1,
            IF Contains(text_lower, words[k])
            THEN Bump(Bump(scores, K_joy, F0_4, F0_2), K_excitement, F0_4, F0_2)
            ELSE scores)

\* a variant of JoyWithExcitement in which a phrase suggests no joy
JoyWithExcitement_None(scores) == scores

\* lines 256-258: joy enters at 0.3 unless it has a score already
JoyWithExcitement(scores) ==
    IF HasKey(scores, K_joy) THEN scores ELSE SetKey(scores, K_joy, F0_3)

RECURSIVE PhraseScores(_, _, _, _)
\* lines 250-258, over the phrases excitement_phrases
PhraseScores(phrases, text_lower, k, scores) ==
    IF k > Len(phrases) THEN scores
    ELSE PhraseScores(phrases, text_lower, k + 1,
            IF Contains(text_lower, phrases[k])
            THEN JoyWithExcitement(Bump(scores, K_excitement, F0_4, F0_2))
            ELSE scores)

\* a variant of OutcomeScores that asks for no context word
OutcomeScores_NoContext(text_lower, scores) ==
    IF CountMatches(positive_outcomes, text_lower, {}) > 0
    THEN Bump(scores, K_joy, F0_35, F0_15)
    ELSE scores

\* lines 261-267
OutcomeScores(text_lower, scores) ==
    IF CountMatches(positive_outcomes, text_lower, {}) > 0
       /\ \E k \in 1..Len(outcome_context) : Contains(text_lower, outcome_context[k])
    THEN Bump(scores, K_joy, F0_35, F0_15)
    ELSE scores

\* lines 279-280: a second match adds 0.1 to base_confidence
MultipleMatches(matches, base_confidence) ==
    IF matches >= 2 THEN Min(FloatAdd(base_confidence, F0_1), F0_95) ELSE base_confidence

\* lines 277-280
BaseConfidence(matches) == MultipleMatches(matches, Min(FloatTimes(matches, F0_4), F0_95))

\* lines 283-286: a score the emotion has already grows by half of
\* base_confidence
SetEntry(scores, emotion, base_confidence) ==
    IF ~HasKey(scores, emotion)
    THEN SetKey(scores, emotion, base_confidence)
    ELSE SetKey(scores, emotion,
                Min(FloatAdd(GetKey(scores, emotion), FloatHalf(base_confidence)), F0_95))

\* lines 275-286: the entry of emotion after matches keywords of it matched
KeywordEntry(scores, emotion, matches) ==
    IF emotion = Lower(L_Neutral) \/ matches = 0 THEN scores
    ELSE SetEntry(scores, emotion, BaseConfidence(matches))

RECURSIVE KeywordScores(_, _, _, _, _)
\* lines 270-286, over the table emotion_keywords; excluded are the dual
\* keywords (the neutral entry has no keyword and is skipped)
KeywordScores(table, excluded, text_lower, k, scores) ==
    IF k > Len(table) THEN scores
    ELSE KeywordScores(table, excluded, text_lower, k + 1,
            KeywordEntry(scores, table[k][1],
                         CountMatches(table[k][2], text_lower, excluded)))

\* line 298: Joy first, Excitement second, every other label third
PreferredOrder(label) == IF label = L_Joy THEN 0 ELSE IF label = L_Excitement THEN 1 ELSE 2

\* lines 241-286: the score table, in insertion order
EmotionScores(text_lower) ==
    KeywordScores(emotion_keywords, Range(dual_emotion_keywords), text_lower, 1,
        OutcomeScores(text_lower,
            PhraseScores(excitement_phrases, text_lower, 1,
                DualKeywordScores(dual_emotion_keywords, text_lower, 1, <<>>))))

\* lines 289-300: capitalized labels, Neutral 0.5 when nothing scored, sorted
\* by the key (-confidence, preferred order)
DetectedOf(emotion_scores) ==
    IF Len(emotion_scores) = 0 THEN <<<<L_Neutral, F0_5>>>>
    ELSE StableSort([i \in 1..Len(emotion_scores) |->
                        <<FloatNeg(emotion_scores[i][2]),
                          PreferredOrder(Capitalize(emotion_scores[i][1])),
                          <<Capitalize(emotion_scores[i][1]), emotion_scores[i][2]>>>>], TRUE)

basic_emotion_detection(text) == DetectedOf(EmotionScores(Lower(text)))

(***************************************************************************)
(* Classifier backends.  A call of a backend either raises (ok FALSE) or   *)
(* answers.  The remote reply is the parsed JSON object of lines 153-164;  *)
(* the local reply is the list self.emotion_model(text)[0].  A confidence  *)
(* that is a non-numeric string ("high") is StrScore: float() of it raises *)
(* ValueError, comparing it with a number raises TypeError.  It is kept as *)
(* a record that is no double (no mantissa, an exponent that is not 0).    *)
(***************************************************************************)
StrScore == [neg |-> FALSE, exp |-> 1, mant |-> <<>>]

\* lines 166-174: the (name, confidence) pairs read from the reply;
\* ok FALSE when a statement of the try block raises
GeminiEmotions(reply) ==
    IF ~reply.ok THEN [ok |-> FALSE, emotions |-> <<>>]
    ELSE IF "emotions" \notin DOMAIN reply.result THEN [ok |-> TRUE, emotions |-> <<>>]
    ELSE LET items == reply.result.emotions
             name(i) == IF "emotion" \in DOMAIN items[i] THEN items[i].emotion ELSE <<>>
             conf(i) == IF "confidence" \in DOMAIN items[i] THEN items[i].confidence ELSE F0_5
         IN  IF \E i \in 1..Len(items) : conf(i) = StrScore
             THEN [ok |-> FALSE, emotions |-> <<>>]
             ELSE [ok |-> TRUE,
                   emotions |-> [i \in 1..Len(items) |->
                                    <<normalize_emotion_name(name(i)), conf(i)>>]]

\* emotions.sort(key=lambda x: x[1], reverse=True)
SortByScoreDesc(emotions) ==
    StableSort([i \in 1..Len(emotions) |-> <<FloatNeg(emotions[i][2]), 0, emotions[i]>>], TRUE)

\* EmotionDetector._detect_with_gemini: never raises
detect_with_gemini(text, reply) ==
    LET got == GeminiEmotions(reply)
    IN  IF got.ok /\ Len(got.emotions) > 0
        THEN SortByScoreDesc(got.emotions)
        ELSE basic_emotion_detection(text)

\* lines 117-122: ok FALSE when the call, the list comprehension or the sort
\* raises (a sort of numbers mixed with strings raises TypeError)
LocalEmotions(reply) ==
    IF ~reply.ok THEN [ok |-> FALSE, emotions |-> <<>>]
    ELSE LET items == reply.items
             emotions == [i \in 1..Len(items) |-> <<items[i].label, items[i].score>>]
         IN  IF \E i, j \in 1..Len(items) : (items[i].score = StrScore) # (items[j].score = StrScore)
             THEN [ok |-> FALSE, emotions |-> <<>>]
             ELSE [ok |-> TRUE, emotions |-> SortByScoreDesc(emotions)]

\* EmotionDetector.detect_emotions; gemini_model and emotion_model are
\* TRUE when the handle is set, reply is the answer of the backend called
detect_emotions(gemini, local, text, reply) ==
    IF gemini THEN detect_with_gemini(text, reply)
    ELSE IF local
         THEN IF LocalEmotions(reply).ok
              THEN LocalEmotions(reply).emotions
              ELSE basic_emotion_detection(text)
    ELSE basic_emotion_detection(text)

\* the classifiers detect_emotions consults, in the order it consults them
TiersTried(gemini, local, reply) ==
    IF gemini
    THEN IF GeminiEmotions(reply).ok /\ Len(GeminiEmotions(reply).emotions) > 0
         THEN <<"remote">> ELSE <<"remote", "keyword">>
    ELSE IF local
         THEN IF LocalEmotions(reply).ok THEN <<"local">> ELSE <<"local", "keyword">>
    ELSE <<"keyword">>

\* lines 315-316
emotion_priority(label) ==
    IF label = L_Joy THEN 0
    ELSE IF label = L_Excitement THEN 1
    ELSE IF label = L_Anxiety THEN 2
    ELSE IF label = L_Fear THEN 3
    ELSE IF label = L_Anger THEN 4
    ELSE IF label = L_Sadness THEN 5
    ELSE IF label = L_Surprise THEN 6
    ELSE IF label = L_Love THEN 7
    ELSE 999

RECURSIVE LabelsAbove(_, _)
\* line 308
LabelsAbove(emotions, threshold) ==
    IF Len(emotions) = 0 THEN <<>>
    ELSE (IF FloatLeq(threshold, emotions[1][2]) THEN <<emotions[1][1]>> ELSE <<>>)
         \o LabelsAbove(Tail(emotions), threshold)

\* lines 308-319 on the list detect_emotions returned: [ok, primary];
\* ok FALSE is the TypeError of comparing a string confidence with the threshold
PrimaryOf(emotions, threshold) ==
    IF \E i \in 1..Len(emotions) : emotions[i][2] = StrScore
    THEN [ok |-> FALSE, primary |-> <<>>]
    ELSE LET above == LabelsAbove(emotions, threshold)
             primary == IF Len(above) = 0 /\ Len(emotions) > 0 THEN <<emotions[1][1]>> ELSE above
             first(x) == CHOOSE i \in 1..Len(emotions) :
                            emotions[i][1] = x /\ \A j \in 1..(i - 1) : emotions[j][1] # x
         IN  [ok |-> TRUE,
              primary |-> StableSort([i \in 1..Len(primary) |->
                             <<emotion_priority(primary[i]),
                               FloatNeg(emotions[first(primary[i])][2]), primary[i]>>], FALSE)]

\* EmotionDetector.get_primary_emotions
get_primary_emotions(gemini, local, text, reply, threshold) ==
    PrimaryOf(detect_emotions(gemini, local, text, reply), threshold)

(***************************************************************************)
(* EmotionCipher                                                           *)
(***************************************************************************)
\* a dict built from (key, value) pairs, a later pair replacing an earlier one
DictOf(pairs) ==
    [k \in {pairs[i][1] : i \in 1..Len(pairs)} |->
        pairs[CHOOSE i \in 1..Len(pairs) :
                  pairs[i][1] = k /\ \A j \in (i + 1)..Len(pairs) : pairs[j][1] # k][2]]

RECURSIVE TotalScore(_, _)
\* line 430: sum() adds the scores from the first to the last, rounding
\* after each; total is the sum so far
TotalScore(emotion_details, total) ==
    IF Len(emotion_details) = 0 THEN total
    ELSE TotalScore(Tail(emotion_details), FloatAdd(total, emotion_details[1][2]))

\* EmotionCipher._create_emotional_vector
create_emotional_vector(emotion_details) ==
    LET total_score == TotalScore(emotion_details, Zero)
    IN  IF FloatLess(Zero, total_score)
        THEN DictOf([i \in 1..Len(emotion_details) |->
                        <<Lower(emotion_details[i][1]),
                          FloatDiv(emotion_details[i][2], total_score)>>])
        ELSE DictOf(<< <<Lower(L_Neutral), F1_0>> >>)

chars ==
    <<97, 98, 99, 100, 101, 102, 103, 104, 105, 106, 107, 108, 109, 110, 111, 112,
      113, 114, 115, 116, 117, 118, 119, 120, 121, 122, 65, 66, 67, 68, 69, 70,
      71, 72, 73, 74, 75, 76, 77, 78, 79, 80, 81, 82, 83, 84, 85, 86,
      87, 88, 89, 90, 48, 49, 50, 51, 52, 53, 54, 55, 56, 57, 33, 64,
      35, 36, 37, 94, 38, 42, 40, 41, 95, 43, 45, 61, 91, 93, 123, 125,
      124, 59, 58, 44, 46, 60, 62, 63>>

\* EmotionCipher._generate_short_encrypted_text
generate_short_encrypted_text(full_encrypted_text, length) ==
    LET hash_bytes == sha256_digest(StrEncode(full_encrypted_text).bytes)
    IN  [i \in 1..length |-> chars[(hash_bytes[((i - 1) % 32) + 1] % Len(chars)) + 1]]

\* a variant of EnvelopeOf whose short_encrypted_text is made from the message
\* instead of the token
EnvelopeOf_ShortOfMessage(emotions, emotion_details, encoded, full_encrypted_text) ==
    IF ~emotions.ok THEN [status |-> "TypeError", envelope |-> <<>>]
    ELSE IF ~encoded.ok THEN [status |-> "UnicodeEncodeError", envelope |-> <<>>]
    ELSE IF \E i \in 1..Len(emotion_details) : emotion_details[i][2] = StrScore
         THEN [status |-> "ValueError", envelope |-> <<>>]
    ELSE [status |-> "ok",
          envelope |->
            [encrypted_text |-> full_encrypted_text,
             short_encrypted_text |-> generate_short_encrypted_text(encoded.bytes, 16),
             emotional_signature |->
                [primary_emotions |-> emotions.primary,
                 emotion_scores |-> DictOf(emotion_details),
                 emotional_vector |-> create_emotional_vector(emotion_details),
                 message_hash |-> message_hash(encoded.bytes)],
             encryption_method |-> "AES-256-Fernet"]]

\* a variant of EnvelopeOf whose message_hash is taken over the token instead
\* of the message
EnvelopeOf_HashOfToken(emotions, emotion_details, encoded, full_encrypted_text) ==
    IF ~emotions.ok THEN [status |-> "TypeError", envelope |-> <<>>]
    ELSE IF ~encoded.ok THEN [status |-> "UnicodeEncodeError", envelope |-> <<>>]
    ELSE IF \E i \in 1..Len(emotion_details) : emotion_details[i][2] = StrScore
         THEN [status |-> "ValueError", envelope |-> <<>>]
    ELSE [status |-> "ok",
          envelope |->
            [encrypted_text |-> full_encrypted_text,
             short_encrypted_text |-> generate_short_encrypted_text(full_encrypted_text, 16),
             emotional_signature |->
                [primary_emotions |-> emotions.primary,
                 emotion_scores |-> DictOf(emotion_details),
                 emotional_vector |-> create_emotional_vector(emotion_details),
                 message_hash |-> message_hash(full_encrypted_text)],
             encryption_method |-> "AES-256-Fernet"]]

\* lines 406-425 once the two detection calls have answered: emotions is
\* [ok, primary], encoded is message.encode() as [ok, bytes]
EnvelopeOf(emotions, emotion_details, encoded, full_encrypted_text) ==
    IF ~emotions.ok THEN [status |-> "TypeError", envelope |-> <<>>]
    ELSE IF ~encoded.ok THEN [status |-> "UnicodeEncodeError", envelope |-> <<>>]
    ELSE IF \E i \in 1..Len(emotion_details) : emotion_details[i][2] = StrScore
         THEN [status |-> "ValueError", envelope |-> <<>>]
    ELSE [status |-> "ok",
          envelope |->
            [encrypted_text |-> full_encrypted_text,
             short_encrypted_text |-> generate_short_encrypted_text(full_encrypted_text, 16),
             emotional_signature |->
                [primary_emotions |-> emotions.primary,
                 emotion_scores |-> DictOf(emotion_details),
                 emotional_vector |-> create_emotional_vector(emotion_details),
                 message_hash |-> message_hash(encoded.bytes)],
             encryption_method |-> "AES-256-Fernet"]]

\* lines 406-407
FullEncryptedText(key, nonce, encoded) ==
    urlsafe_b64encode(FernetEncrypt(key, nonce, encoded.bytes))

\* EmotionCipher.encrypt: [status, envelope]; nonce is what Fernet draws for
\* this call, reply1 and reply2 what the backend answers to the two
\* detection calls
encrypt(gemini, local, key, message, nonce, reply1, reply2) ==
    EnvelopeOf(get_primary_emotions(gemini, local, message, reply1, F0_3),
               detect_emotions(gemini, local, message, reply2),
               StrEncode(message),
               FullEncryptedText(key, nonce, StrEncode(message)))

\* the outcome of lines 455-460 from the three results: [ok, message]
MessageOf(encrypted_bytes, decrypted_bytes, original_message) ==
    IF encrypted_bytes.ok /\ decrypted_bytes.ok /\ original_message.ok
    THEN [ok |-> TRUE, message |-> original_message.str]
    ELSE [ok |-> FALSE, message |-> <<>>]

\* line 457 and 458 on the bytes line 456 decoded
DecryptBytes(key, signedSet, encrypted_bytes) ==
    MessageOf(encrypted_bytes,
              FernetDecrypt(key, encrypted_bytes.bytes, signedSet),
              BytesDecode(FernetDecrypt(key, encrypted_bytes.bytes, signedSet).bytes))

\* lines 455-460: [ok, message]; ok FALSE is ValueError("Decryption failed").
\* encrypted_text holds ASCII only, so its encode() does not raise
DecryptText(key, signedSet, encrypted_text) ==
    DecryptBytes(key, signedSet, urlsafe_b64decode(StrEncode(encrypted_text).bytes))

\* a variant of IntegrityWarning that also warns of a missing message_hash
IntegrityWarning_Strict(emotional_signature, original_message) ==
    \/ "message_hash" \notin DOMAIN emotional_signature
    \/ message_hash(StrEncode(original_message).bytes) # emotional_signature.message_hash

\* lines 463-466: the warning is printed
IntegrityWarning(emotional_signature, original_message) ==
    /\ "message_hash" \in DOMAIN emotional_signature
    /\ message_hash(StrEncode(original_message).bytes) # emotional_signature.message_hash

\* a variant of ResultOf that reports the stored primary_emotions as the
\* verified ones
ResultOf_TrustSignature(text, emotional_signature, verified_emotions) ==
    IF ~text.ok THEN [status |-> "ValueError", warning |-> FALSE, result |-> <<>>]
    ELSE IF ~verified_emotions.ok
         THEN [status |-> "TypeError",
               warning |-> IntegrityWarning(emotional_signature, text.message),
               result |-> <<>>]
    ELSE [status |-> "ok",
          warning |-> IntegrityWarning(emotional_signature, text.message),
          result |-> [original_message |-> text.message,
                      detected_emotion |->
                          IF "primary_emotions" \in DOMAIN emotional_signature
                          THEN emotional_signature.primary_emotions ELSE <<>>,
                      verified_emotion |->
                          IF "primary_emotions" \in DOMAIN emotional_signature
                          THEN emotional_signature.primary_emotions ELSE <<>>,
                      emotional_signature |-> emotional_signature]]

\* lines 462-479 on the decrypted text: verified_emotions is [ok, primary]
ResultOf(text, emotional_signature, verified_emotions) ==
    IF ~text.ok THEN [status |-> "ValueError", warning |-> FALSE, result |-> <<>>]
    ELSE IF ~verified_emotions.ok
         THEN [status |-> "TypeError",
               warning |-> IntegrityWarning(emotional_signature, text.message),
               result |-> <<>>]
    ELSE [status |-> "ok",
          warning |-> IntegrityWarning(emotional_signature, text.message),
          result |-> [original_message |-> text.message,
                      detected_emotion |->
                          IF "primary_emotions" \in DOMAIN emotional_signature
                          THEN emotional_signature.primary_emotions ELSE <<>>,
                      verified_emotion |-> verified_emotions.primary,
                      emotional_signature |-> emotional_signature]]

\* a variant of DecryptFrom that verifies with a threshold of 0.5
DecryptFrom_Threshold(gemini, local, text, emotional_signature, reply) ==
    ResultOf(text, emotional_signature,
             get_primary_emotions(gemini, local, text.message, reply, F0_5))

\* lines 462-479: the detector is called on the decrypted text
DecryptFrom(gemini, local, text, emotional_signature, reply) ==
    ResultOf(text, emotional_signature,
             get_primary_emotions(gemini, local, text.message, reply, F0_3))

\* EmotionCipher.decrypt: [status, warning, result]; warning is the printed
\* "Message integrity check failed!"
decrypt(gemini, local, key, signedSet, encrypted_data, reply) ==
    IF "encrypted_text" \notin DOMAIN encrypted_data
    THEN [status |-> "KeyError", warning |-> FALSE, result |-> <<>>]
    ELSE DecryptFrom(gemini, local,
                     DecryptText(key, signedSet, encrypted_data.encrypted_text),
                     IF "emotional_signature" \in DOMAIN encrypted_data
                     THEN encrypted_data.emotional_signature ELSE <<>>,
                     reply)

(***************************************************************************)
(* The inputs of the model.                                                *)
(***************************************************************************)
\* 'a', 'e' with an acute accent (two bytes in UTF-8), a lone surrogate
MsgChars == {97, 233, 55296}

\* "sad"
SampleTexts == {<<115, 97, 100>>}

Messages == SeqsUpTo(MsgChars, MaxMsgLen) \cup SampleTexts

\* no backend is configured: nothing is called
NoReply == [ok |-> FALSE]

\* answers of the remote backend: the call raises, or the JSON object parsed
RemoteReplies ==
    { [ok |-> FALSE, result |-> <<>>],
      \* the reply the prompt asks for: Joy 0.85, Anxiety 0.65
      [ok |-> TRUE, result |-> [emotions |-> <<[emotion |-> <<74, 111, 121>>, confidence |-> F0_85], [emotion |-> <<65, 110, 120, 105, 101, 116, 121>>, confidence |-> F0_65]>>]],
      \* synonyms of one label: happy 0.5, joy 0.5
      [ok |-> TRUE, result |-> [emotions |-> <<[emotion |-> <<104, 97, 112, 112, 121>>, confidence |-> F0_5], [emotion |-> <<106, 111, 121>>, confidence |-> F0_5]>>]],
      \* three entries, unsorted, one outside the vocabulary: Sadness 0.2, Anger 0.9, disgust 0.3
      [ok |-> TRUE, result |-> [emotions |-> <<[emotion |-> <<83, 97, 100, 110, 101, 115, 115>>, confidence |-> F0_2], [emotion |-> <<65, 110, 103, 101, 114>>, confidence |-> F0_9], [emotion |-> <<100, 105, 115, 103, 117, 115, 116>>, confidence |-> F0_3]>>]],
      \* a confidence that is no number: Joy "high"
      [ok |-> TRUE, result |-> [emotions |-> <<[emotion |-> <<74, 111, 121>>, confidence |-> StrScore]>>]],
      \* a zero confidence: Sadness 0.0
      [ok |-> TRUE, result |-> [emotions |-> <<[emotion |-> <<83, 97, 100, 110, 101, 115, 115>>, confidence |-> Zero]>>]],
      \* confidences outside [0, 1] that cancel: Joy 1.1, Fear 0.1, Anger -1.2
      [ok |-> TRUE, result |-> [emotions |-> <<[emotion |-> <<74, 111, 121>>, confidence |-> F1_1], [emotion |-> <<70, 101, 97, 114>>, confidence |-> F0_1], [emotion |-> <<65, 110, 103, 101, 114>>, confidence |-> FloatNeg(F1_2)]>>]] }

\* answers of the local backend: the call raises, or the list of
\* label/score records
LocalReplies ==
    { [ok |-> FALSE, items |-> <<>>],
      \* an empty list
      [ok |-> TRUE, items |-> <<>>],
      \* the model's own lower-case labels, unsorted: joy 0.2, anger 0.5, disgust 0.3
      [ok |-> TRUE, items |-> <<[label |-> <<106, 111, 121>>, score |-> F0_2], [label |-> <<97, 110, 103, 101, 114>>, score |-> F0_5], [label |-> <<100, 105, 115, 103, 117, 115, 116>>, score |-> F0_3]>>],
      \* a score that is no number: joy "high"
      [ok |-> TRUE, items |-> <<[label |-> <<106, 111, 121>>, score |-> StrScore]>>],
      \* a number and a string: joy 0.9, sadness "high"
      [ok |-> TRUE, items |-> <<[label |-> <<106, 111, 121>>, score |-> F0_9], [label |-> <<115, 97, 100, 110, 101, 115, 115>>, score |-> StrScore]>>] }

\* the answers a detection call gets without waiting: those of the local
\* model when it is the backend called (line 118), none otherwise (the
\* answer of the remote backend comes to a call in flight, see RemoteAnswer)
Replies(gemini, local) ==
    IF ~gemini /\ local THEN LocalReplies ELSE {NoReply}

Threads == 1..MaxThreads

\* the reply the prompt asks for (lines 139-144)
AskedFor == {reply \in RemoteReplies : reply.ok /\ Len(reply.result.emotions) = 2
                                        /\ reply.result.emotions[1].confidence = F0_85}

\* One cipher serves every session of the app (get_cipher is cached, app.py
\* line 363), each session calling from its own thread.  The first thread is
\* the caller the specifications follow, with every message, every answer of
\* the backend and every draw of Fernet; a thread beside it calls with one
\* text, is answered as the prompt asks, and Fernet draws one value for it
TextsOf(t) == IF t = 1 THEN Messages ELSE SampleTexts

AnswersTo(t) == IF t = 1 THEN RemoteReplies ELSE AskedFor

NoncesOf(t) == IF t = 1 THEN Nonces ELSE {0}

\* the first thread alone: each specification names the calls it follows in
\* the first thread only and the calls every thread makes
First == {1}

(***************************************************************************)
(* State.                                                                  *)
(***************************************************************************)
VARIABLES
    password,         \* EmotionCipher.password
    gemini_model,     \* EmotionDetector.gemini_model is set
    emotion_model,    \* EmotionDetector.emotion_model is set
    local_available,  \* the environment: transformers is installed and its model loads
    envelope,         \* the envelope of the call that returned last, <<>> when there is none
    origin,           \* the message encrypted and the envelope encrypt returned
    signed,           \* the (key, parts) pairs Fernet has computed a tag for
    last,             \* the call that returned last: its inputs, what it consulted, its outcome
    inflight          \* for each thread, the call it has made that has not returned

vars == <<password, gemini_model, emotion_model, local_available, envelope, origin, signed, last,
          inflight>>

NoCall ==
    [op |-> "none", status |-> "ok", key |-> 0, message |-> <<>>, replies |-> <<>>,
     tried |-> <<>>, detected |-> <<>>, primary |-> <<>>, warning |-> FALSE, result |-> <<>>]

\* a thread that has no call in flight.  A call in flight has the arguments
\* and locals it holds while it waits in generate_content (line 153):
\* stage is "waiting" until the backend answers and "answered" until the code
\* goes on; replies are the answers it got so far; envelope and origin are the
\* envelope decrypt was given and the encrypt call it came from; warning is
\* the integrity warning decrypt printed before it waits; expect is what the
\* backend is to answer, <<>> when it answers anything.  A call that is in
\* the keyword classifier (lines 210-300) has the block it is to run next
\* as its stage and its local emotion_scores
Idle ==
    [op |-> "none", stage |-> "idle", key |-> 0, message |-> <<>>, replies |-> <<>>,
     expect |-> <<>>, envelope |-> <<>>, origin |-> <<>>, warning |-> FALSE,
     emotion_scores |-> <<>>]

\* EmotionDetector._initialize_model: the two handles, from what is
\* installed (HAS_GEMINI, HAS_TRANSFORMERS), whether an API key is given and
\* whether each backend loads
initialize_model(has_gemini, api_key, gemini_loads, has_transformers, local_loads) ==
    IF has_gemini /\ api_key /\ gemini_loads
    THEN [gemini_model |-> TRUE, emotion_model |-> FALSE]
    ELSE [gemini_model |-> FALSE, emotion_model |-> has_transformers /\ local_loads]

\* EmotionCipher.__init__ and EmotionDetector.__init__
Init ==
    /\ password \in Passwords
    /\ \E has_gemini, api_key, gemini_loads, has_transformers, local_loads \in BOOLEAN :
          LET handles == initialize_model(has_gemini, api_key, gemini_loads,
                                          has_transformers, local_loads)
          IN  /\ gemini_model = handles.gemini_model
              /\ emotion_model = handles.emotion_model
              /\ local_available = (has_transformers /\ local_loads)
    /\ envelope = <<>>
    /\ origin = <<>>
    /\ signed = {}
    /\ last = NoCall
    /\ inflight = [t \in Threads |-> Idle]

detector == <<gemini_model, emotion_model, local_available>>

(***************************************************************************)
(* Calls.  A call by thread t runs to its return when the detector has no  *)
(* remote handle.  With a remote handle (line 107) it runs to line 153 and *)
(* is in flight; RemoteAnswer is the backend answering, and the Return and *)
(* Resume actions are the code going on from line 154.                     *)
(***************************************************************************)
\* thread t can make a call: it has none in flight.  The first thread is
\* the caller the specifications follow; a thread beside it calls while the
\* first has a call in flight
MayCall(t) == inflight[t] = Idle /\ (t = 1 \/ inflight[1] # Idle)

\* ... a call that is the first of the caller's calls
MayStart(t) == MayCall(t) /\ (t = 1 => last.op = "none")

\* thread t waits in generate_content for the first time in this call
WaitsIn(t, call) == inflight' = [inflight EXCEPT ![t] = [call EXCEPT !.stage = "waiting"]]

\* the call of thread t has returned or raised
Returns(t) == inflight' = [inflight EXCEPT ![t] = Idle]

\* the remote backend answers the call of thread t, or its client raises
RemoteAnswer(t, reply) ==
    /\ inflight[t].stage = "waiting"
    /\ inflight[t].expect # <<>> => reply = inflight[t].expect[Len(inflight[t].replies) + 1]
    /\ inflight' = [inflight EXCEPT ![t].stage = "answered", ![t].replies = Append(@, reply)]
    /\ UNCHANGED <<password, detector, envelope, origin, signed, last>>

\* a variant of DetectEmotions that gives up the handle of a backend whose
\* call raised
DetectEmotions_DropHandle(t, text, reply) ==
    /\ MayStart(t)
    /\ IF gemini_model
       THEN /\ WaitsIn(t, [Idle EXCEPT !.op = "detect", !.message = text])
            /\ UNCHANGED <<last, gemini_model, emotion_model>>
       ELSE /\ last' = [NoCall EXCEPT
                          !.op = "detect", !.message = text, !.replies = <<reply>>,
                          !.tried = TiersTried(gemini_model, emotion_model, reply),
                          !.detected = detect_emotions(gemini_model, emotion_model, text, reply)]
            /\ gemini_model' = (gemini_model /\ reply.ok)
            /\ emotion_model' = (emotion_model /\ reply.ok)
            /\ UNCHANGED inflight
    /\ UNCHANGED <<password, local_available, envelope, origin, signed>>

\* detector.detect_emotions(text), to its return or to line 153
DetectEmotions(t, text, reply) ==
    /\ MayStart(t)
    /\ IF gemini_model
       THEN /\ WaitsIn(t, [Idle EXCEPT !.op = "detect", !.message = text])
            /\ UNCHANGED last
       ELSE /\ last' = [NoCall EXCEPT
                          !.op = "detect", !.message = text, !.replies = <<reply>>,
                          !.tried = TiersTried(gemini_model, emotion_model, reply),
                          !.detected = detect_emotions(gemini_model, emotion_model, text, reply)]
            /\ UNCHANGED inflight
    /\ UNCHANGED <<password, detector, envelope, origin, signed>>

\* lines 154-184 and 109-113 on the answer: detect_emotions returns
DetectReturn(t) ==
    /\ inflight[t].op = "detect"
    /\ inflight[t].stage = "answered"
    /\ last' = [NoCall EXCEPT
                  !.op = "detect", !.message = inflight[t].message,
                  !.replies = inflight[t].replies,
                  !.tried = TiersTried(gemini_model, emotion_model, inflight[t].replies[1]),
                  !.detected = detect_emotions(gemini_model, emotion_model,
                                               inflight[t].message, inflight[t].replies[1])]
    /\ Returns(t)
    /\ UNCHANGED <<password, detector, envelope, origin, signed>>

\* detector.get_primary_emotions(text), to its return or to line 153
GetPrimaryEmotions(t, text, reply) ==
    /\ MayStart(t)
    /\ IF gemini_model
       THEN /\ WaitsIn(t, [Idle EXCEPT !.op = "primary", !.message = text])
            /\ UNCHANGED last
       ELSE /\ \E out \in {get_primary_emotions(gemini_model, emotion_model, text, reply,
                                                F0_3)} :
                  last' = [NoCall EXCEPT
                             !.op = "primary", !.message = text, !.replies = <<reply>>,
                             !.status = IF out.ok THEN "ok" ELSE "TypeError",
                             !.primary = out.primary]
            /\ UNCHANGED inflight
    /\ UNCHANGED <<password, detector, envelope, origin, signed>>

\* lines 154-184, 109-113 and 308-319 on the answer: get_primary_emotions
\* returns
PrimaryReturn(t) ==
    /\ inflight[t].op = "primary"
    /\ inflight[t].stage = "answered"
    /\ \E out \in {get_primary_emotions(gemini_model, emotion_model, inflight[t].message,
                                        inflight[t].replies[1], F0_3)} :
          last' = [NoCall EXCEPT
                     !.op = "primary", !.message = inflight[t].message,
                     !.replies = inflight[t].replies,
                     !.status = IF out.ok THEN "ok" ELSE "TypeError",
                     !.primary = out.primary]
    /\ Returns(t)
    /\ UNCHANGED <<password, detector, envelope, origin, signed>>

\* cipher.encrypt(message), to its return or to line 153 (in line 402);
\* Fernet signs (line 406) when the call gets there; detected is the list the
\* second detection call (line 403) returned
Encrypt(t, message, nonce, reply1, reply2) ==
    /\ MayStart(t)
    /\ IF gemini_model
       THEN /\ WaitsIn(t, [Idle EXCEPT !.op = "encrypt", !.message = message,
                                       !.key = create_cipher_suite(password)])
            /\ UNCHANGED <<envelope, origin, signed, last>>
       ELSE /\ \E key \in {create_cipher_suite(password)} :
               \E out \in {encrypt(gemini_model, emotion_model, key, message, nonce,
                                   reply1, reply2)} :
                  /\ envelope' = out.envelope
                  /\ origin' = IF out.status = "ok"
                               THEN [message |-> message, envelope |-> out.envelope]
                               ELSE origin
                  /\ signed' = IF out.status \in {"ok", "ValueError"}
                               THEN signed \cup {<<key, FernetParts(key, nonce,
                                                            StrEncode(message).bytes)>>}
                               ELSE signed
                  /\ last' = [NoCall EXCEPT
                                !.op = "encrypt", !.status = out.status, !.key = key,
                                !.message = message,
                                !.replies = IF out.status = "TypeError"
                                            THEN <<reply1>> ELSE <<reply1, reply2>>,
                                !.detected =
                                    IF out.status = "TypeError" THEN <<>>
                                    ELSE detect_emotions(gemini_model, emotion_model,
                                                         message, reply2)]
            /\ UNCHANGED inflight
    /\ UNCHANGED <<password, detector>>

\* line 402 has returned the primary emotions: encrypt goes on to line 403
\* and waits in line 153 again (with a remote handle line 308 compares
\* numbers only, float() of line 171 having raised on anything else)
EncryptResume(t) ==
    /\ inflight[t].op \in {"encrypt", "encrypt_again"}
    /\ inflight[t].stage = "answered"
    /\ Len(inflight[t].replies) = 1
    /\ get_primary_emotions(gemini_model, emotion_model, inflight[t].message,
                            inflight[t].replies[1], F0_3).ok
    /\ inflight' = [inflight EXCEPT ![t].stage = "waiting"]
    /\ UNCHANGED <<password, detector, envelope, origin, signed, last>>

\* line 403 has returned: lines 406-425, encrypt returns or raises.  The
\* second of two encrypt calls leaves in origin the envelope of the first
EncryptReturn(t, nonce) ==
    /\ inflight[t].op \in {"encrypt", "encrypt_again"}
    /\ inflight[t].stage = "answered"
    /\ Len(inflight[t].replies) = 2
    /\ \E key \in {inflight[t].key}, message \in {inflight[t].message} :
       \E out \in {encrypt(gemini_model, emotion_model, key, message, nonce,
                           inflight[t].replies[1], inflight[t].replies[2])} :
          /\ envelope' = out.envelope
          /\ origin' = IF inflight[t].op = "encrypt_again" THEN inflight[t].origin
                       ELSE IF out.status = "ok"
                            THEN [message |-> message, envelope |-> out.envelope]
                            ELSE origin
          /\ signed' = IF out.status \in {"ok", "ValueError"}
                       THEN signed \cup {<<key, FernetParts(key, nonce,
                                                    StrEncode(message).bytes)>>}
                       ELSE signed
          /\ last' = [NoCall EXCEPT
                        !.op = inflight[t].op, !.status = out.status, !.key = key,
                        !.message = message, !.replies = inflight[t].replies,
                        !.detected = detect_emotions(gemini_model, emotion_model, message,
                                                     inflight[t].replies[2])]
    /\ Returns(t)
    /\ UNCHANGED <<password, detector>>

Encrypted == last.op = "encrypt" /\ last.status = "ok"

\* the emotional_signature decrypt reads from an envelope (line 452)
SignatureOf(encrypted_data) ==
    IF "emotional_signature" \in DOMAIN encrypted_data
    THEN encrypted_data.emotional_signature ELSE <<>>

\* lines 451-460 raise nothing: decrypt gets to the detector (line 472)
ReachesDetector(key, encrypted_data) ==
    /\ "encrypted_text" \in DOMAIN encrypted_data
    /\ DecryptText(key, signed, encrypted_data.encrypted_text).ok

\* the call of decrypt that waits in line 153: the text it has decrypted
\* (line 458) and the warning it has printed (line 466)
DecryptWaiting(key, encrypted_data, from) ==
    [Idle EXCEPT
        !.op = "decrypt", !.key = key, !.envelope = encrypted_data, !.origin = from,
        !.message = DecryptText(key, signed, encrypted_data.encrypted_text).message,
        !.warning = IntegrityWarning(SignatureOf(encrypted_data),
                        DecryptText(key, signed, encrypted_data.encrypted_text).message)]

\* a variant of DecryptBy that takes the fields out of the envelope it reads
\* (dict.pop in place of the subscript of line 451 and the get of line 452)
DecryptBy_Pop(t, key, reply) ==
    /\ Encrypted
    /\ MayCall(t)
    /\ IF gemini_model /\ ReachesDetector(key, envelope)
       THEN /\ WaitsIn(t, DecryptWaiting(key, envelope, origin))
            /\ UNCHANGED last
       ELSE /\ \E out \in {decrypt(gemini_model, emotion_model, key, signed, envelope, reply)} :
                  last' = [NoCall EXCEPT
                             !.op = "decrypt", !.status = out.status, !.key = key,
                             !.replies = IF out.status \in {"ok", "TypeError"}
                                         THEN <<reply>> ELSE <<>>,
                             !.warning = out.warning,
                             !.result = out.result]
            /\ UNCHANGED inflight
    /\ envelope' = [k \in DOMAIN envelope \ {"encrypted_text", "emotional_signature"} |->
                        envelope[k]]
    /\ UNCHANGED <<password, detector, origin, signed>>

\* the decrypt call of the cipher whose key is key, on the envelope held, to
\* its return or to line 153 (in line 472)
DecryptBy(t, key, reply) ==
    /\ Encrypted
    /\ MayCall(t)
    /\ IF gemini_model /\ ReachesDetector(key, envelope)
       THEN /\ WaitsIn(t, DecryptWaiting(key, envelope, origin))
            /\ UNCHANGED last
       ELSE /\ \E out \in {decrypt(gemini_model, emotion_model, key, signed, envelope, reply)} :
                  last' = [NoCall EXCEPT
                             !.op = "decrypt", !.status = out.status, !.key = key,
                             !.replies = IF out.status \in {"ok", "TypeError"}
                                         THEN <<reply>> ELSE <<>>,
                             !.warning = out.warning,
                             !.result = out.result]
            /\ UNCHANGED inflight
    /\ UNCHANGED <<password, detector, envelope, origin, signed>>

\* line 472 has returned the verified emotions: lines 474-479, decrypt
\* returns.  The envelope it was given is as it is after the call
DecryptReturn(t) ==
    /\ inflight[t].op = "decrypt"
    /\ inflight[t].stage = "answered"
    /\ \E out \in {DecryptFrom(gemini_model, emotion_model,
                               [ok |-> TRUE, message |-> inflight[t].message],
                               SignatureOf(inflight[t].envelope), inflight[t].replies[1])} :
          last' = [NoCall EXCEPT
                     !.op = "decrypt", !.status = out.status, !.key = inflight[t].key,
                     !.replies = inflight[t].replies,
                     !.warning = out.warning,
                     !.result = out.result]
    /\ envelope' = inflight[t].envelope
    /\ origin' = inflight[t].origin
    /\ Returns(t)
    /\ UNCHANGED <<password, detector, signed>>

\* cipher.decrypt(envelope)
Decrypt(t, reply) == DecryptBy(t, create_cipher_suite(password), reply)

\* EmotionCipher(password=other).decrypt(envelope), in the same environment
DecryptWithOtherPassword(t, other, reply) ==
    /\ other # password
    /\ DecryptBy(t, create_cipher_suite(other), reply)

(***************************************************************************)
(* What the holder of an envelope can do to it between encrypt and decrypt.*)
(***************************************************************************)
Untouched == Encrypted /\ envelope = origin.envelope

\* the signature's message_hash replaced by the hash of another message
\* (of the empty message, or of "a" when the message is empty)
AlterHash ==
    /\ Untouched
    /\ LET other == IF origin.message = <<>> THEN <<97>> ELSE <<>>
       IN  envelope' = [envelope EXCEPT
                          !.emotional_signature.message_hash = message_hash(StrEncode(other).bytes)]
    /\ UNCHANGED <<password, detector, origin, signed, last, inflight>>

\* the characters tried in encrypted_text: the url-safe alphabet, '+', '/',
\* '=', and a blank
TamperChars == (65..90) \cup (97..122) \cup (48..57) \cup {45, 95, 43, 47, 61, 32}

\* one character of encrypted_text replaced by a different one
ReplaceChar(i, c) ==
    /\ Untouched
    /\ i \in 1..Len(envelope.encrypted_text)
    /\ envelope.encrypted_text[i] # c
    /\ envelope' = [envelope EXCEPT !.encrypted_text[i] = c]
    /\ UNCHANGED <<password, detector, origin, signed, last, inflight>>

\* encrypted_text cut to its first n characters
Truncate(n) ==
    /\ Untouched
    /\ n < Len(envelope.encrypted_text)
    /\ envelope' = [envelope EXCEPT !.encrypted_text = SubSeq(@, 1, n)]
    /\ UNCHANGED <<password, detector, origin, signed, last, inflight>>

\* a character added at the end of encrypted_text
AppendChar(c) ==
    /\ Untouched
    /\ envelope' = [envelope EXCEPT !.encrypted_text = Append(@, c)]
    /\ UNCHANGED <<password, detector, origin, signed, last, inflight>>

(***************************************************************************)
(* Spec: a cipher with any detector configuration: a call of the detector  *)
(* or an encrypt call; the hash of the envelope returned possibly altered; *)
(* then decrypt calls by the same cipher or by a cipher with another       *)
(* password.  Other threads call detect_emotions on the same cipher while  *)
(* a call of the first is in flight.                                       *)
(***************************************************************************)
Next ==
    \/ \E t \in Threads : \E text \in TextsOf(t), reply \in Replies(gemini_model, emotion_model) :
          DetectEmotions(t, text, reply)
    \/ \E t \in First : \E text \in TextsOf(t), reply \in Replies(gemini_model, emotion_model) :
          GetPrimaryEmotions(t, text, reply)
    \/ \E t \in First : \E message \in TextsOf(t), nonce \in Nonces,
          reply1, reply2 \in Replies(gemini_model, emotion_model) :
          Encrypt(t, message, nonce, reply1, reply2)
    \/ AlterHash
    \/ \E t \in First, reply \in Replies(gemini_model, emotion_model) : Decrypt(t, reply)
    \/ \E t \in First, other \in Passwords, reply \in Replies(gemini_model, emotion_model) :
          DecryptWithOtherPassword(t, other, reply)
    \/ \E t \in Threads : \E reply \in AnswersTo(t) : RemoteAnswer(t, reply)
    \/ \E t \in Threads : DetectReturn(t)
    \/ \E t \in Threads : PrimaryReturn(t)
    \/ \E t \in Threads : EncryptResume(t)
    \/ \E t \in Threads : \E nonce \in NoncesOf(t) : EncryptReturn(t, nonce)
    \/ \E t \in Threads : DecryptReturn(t)

Spec == Init /\ [][Next]_vars

(***************************************************************************)
(* SpecCipher: the cipher layer alone.  No backend is configured; the      *)
(* holder of the envelope changes encrypted_text before decrypt.           *)
(***************************************************************************)
InitCipher == Init /\ ~gemini_model /\ ~emotion_model /\ ~local_available

NextCipher ==
    \/ \E t \in Threads : \E message \in TextsOf(t), nonce \in Nonces :
          Encrypt(t, message, nonce, NoReply, NoReply)
    \/ \E i \in 1..(8 * (MaxMsgLen + 3)), c \in TamperChars : ReplaceChar(i, c)
    \/ \E n \in 0..(8 * (MaxMsgLen + 3)) : Truncate(n)
    \/ \E c \in TamperChars : AppendChar(c)
    \/ \E t \in Threads : Decrypt(t, NoReply)
    \/ \E t \in Threads, other \in Passwords : DecryptWithOtherPassword(t, other, NoReply)

SpecCipher == InitCipher /\ [][NextCipher]_vars

(***************************************************************************)
(* Properties.                                                             *)
(***************************************************************************)
OwnKey == create_cipher_suite(password)

\* the last call is decrypt by the cipher that encrypted
OwnDecrypt == last.op = "decrypt" /\ last.key = OwnKey

\* ... of the envelope exactly as encrypt returned it
HonestDecrypt == OwnDecrypt /\ envelope = origin.envelope

\* C1: round trip.  For every message and every cipher (any password, any
\* detector configuration, any answer of the backends) encrypt succeeds, and
\* decrypt of the envelope it returned, by the same cipher, succeeds with
\* original_message equal to the message.
C1_RoundTrip ==
    /\ last.op = "encrypt" => last.status = "ok"
    /\ HonestDecrypt => /\ last.status = "ok"
                        /\ last.result.original_message = origin.message

\* the url-safe base64 alphabet
UrlSafeChars == (65..90) \cup (97..122) \cup (48..57) \cup {45, 95}

\* text is not well-formed url-safe base64: its length is no multiple of 4,
\* or it holds a character outside the alphabet other than '=' in one of the
\* last two places
Malformed(text) ==
    \/ Len(text) % 4 # 0
    \/ \E i \in 1..Len(text) :
          /\ text[i] \notin UrlSafeChars
          /\ ~(text[i] = PadChar /\ i >= Len(text) - 1)

\* text is a proper prefix of the encrypted_text encrypt returned
Truncated(text) ==
    /\ Len(text) < Len(origin.envelope.encrypted_text)
    /\ text = SubSeq(origin.envelope.encrypted_text, 1, Len(text))

\* C2: decrypt by a cipher built from another password, or of a truncated or
\* otherwise malformed encrypted_text, raises the decryption error and
\* returns no result.
C2_DecryptRejects ==
    (/\ last.op = "decrypt"
     /\ \/ last.key # OwnKey
        \/ Truncated(envelope.encrypted_text)
        \/ Malformed(envelope.encrypted_text))
    => (last.status = "ValueError" /\ last.result = <<>>)

\* encrypted_text differs from the one encrypt returned in exactly one place
OneCharReplaced ==
    /\ Len(envelope.encrypted_text) = Len(origin.envelope.encrypted_text)
    /\ Cardinality({i \in 1..Len(envelope.encrypted_text) :
                        envelope.encrypted_text[i] # origin.envelope.encrypted_text[i]}) = 1

\* C3: tamper detection.  After any single character of encrypted_text is
\* replaced by a different one, decrypt by the same cipher raises the
\* decryption error.
C3_TamperDetected ==
    (OwnDecrypt /\ OneCharReplaced) => last.status = "ValueError"

\* C4: strict fallback order.  detect_emotions consults the remote backend
\* first when it is configured; when the remote call fails and the local
\* model is available, the local model is consulted next; the keyword
\* classifier is used only when the local model is absent or has failed.
C4_FallbackOrder ==
    last.op = "detect" =>
        /\ gemini_model => last.tried[1] = "remote"
        /\ (gemini_model /\ Len(last.tried) > 1 /\ local_available) => last.tried[2] = "local"
        /\ ("keyword" \in Range(last.tried) /\ local_available) => "local" \in Range(last.tried)

\* C5: no classifier failure reaches the caller.  Whatever the backend
\* answers, detect_emotions returns a list of (label, number) pairs ranked by
\* descending confidence, and get_primary_emotions, encrypt and decrypt do
\* not raise because of it.
C5_NoClassifierFailure ==
    /\ last.op = "detect" =>
          /\ \A i \in 1..Len(last.detected) : last.detected[i][2] # StrScore
          /\ \A i, j \in 1..Len(last.detected) :
                i < j => FloatLeq(last.detected[j][2], last.detected[i][2])
    /\ last.op = "primary" => last.status = "ok"
    /\ last.op = "encrypt" => last.status \notin {"TypeError", "ValueError"}
    /\ last.op = "decrypt" => last.status # "TypeError"

\* C6: non-empty primary set.  For every non-empty message and every answer
\* of the backends, the primary_emotions of the envelope encrypt returns is
\* not empty.
C6_PrimaryNonEmpty ==
    (Encrypted /\ last.message # <<>>)
    => origin.envelope.emotional_signature.primary_emotions # <<>>

\* C7: every list a backend (remote or local) answers successfully is
\* returned by detect_emotions with at most 2 entries, each label normalized.
C7_CappedAndNormalized ==
    (last.op = "detect" /\ last.tried \in {<<"remote">>, <<"local">>})
    => /\ Len(last.detected) <= 2
       /\ \A i \in 1..Len(last.detected) :
             last.detected[i][1] = normalize_emotion_name(last.detected[i][1])

RECURSIVE SumOfValues(_, _)
\* sum(vector.values()) over the labels S, added one after the other
SumOfValues(vector, S) ==
    IF S = {} THEN Zero
    ELSE LET k == CHOOSE x \in S : TRUE
         IN  FloatAdd(vector[k], SumOfValues(vector, S \ {k}))

\* the floating-point tolerance of the sum: 1e-9
Tolerance == FloatDiv(F1_0, FromInt(1000000000))

\* a - b in floats
FloatSub(a, b) == FloatAdd(a, FloatNeg(b))

\* the values of the vector sum to 1 within the tolerance
SumsToOne(vector) ==
    LET total == SumOfValues(vector, DOMAIN vector)
    IN  /\ FloatLeq(FloatSub(F1_0, Tolerance), total)
        /\ FloatLeq(total, FloatAdd(F1_0, Tolerance))

\* C8: vector normalization.  The values of the emotional_vector encrypt
\* stores sum to 1 within the floating-point tolerance, whatever list
\* detection returned; when the scores total 0 the vector is neutral 1.0
\* alone.
C8_VectorSumsToOne ==
    Encrypted =>
        /\ SumsToOne(origin.envelope.emotional_signature.emotional_vector)
        /\ IsZero(TotalScore(last.detected, Zero))
              => origin.envelope.emotional_signature.emotional_vector
                    = (Lower(L_Neutral) :> F1_0)

\* C9: hash stability.  The message_hash encrypt stores is the first 16 hex
\* characters of the SHA-256 of the message's bytes, and decrypt of the
\* unmodified envelope by the same cipher never gives the integrity warning
\* (it recomputes the same value from the text it recovers).
C9_HashStable ==
    /\ Encrypted =>
          origin.envelope.emotional_signature.message_hash
              = SubSeq(sha256_hexdigest(Utf8Bytes(origin.message)), 1, 16)
    /\ HonestDecrypt =>
          /\ ~last.warning
          /\ last.status = "ok" =>
                SubSeq(sha256_hexdigest(Utf8Bytes(last.result.original_message)), 1, 16)
                    = last.result.emotional_signature.message_hash

\* C9's case: an honest round trip of a non-empty message has completed
C9_Witness ==
    /\ HonestDecrypt
    /\ last.status = "ok"
    /\ origin.message # <<>>
    /\ last.result.original_message = origin.message

\* the envelope's message_hash was replaced, encrypted_text was not
HashAltered ==
    /\ envelope.encrypted_text = origin.envelope.encrypted_text
    /\ envelope.emotional_signature.message_hash
          # origin.envelope.emotional_signature.message_hash

\* C10: an integrity mismatch is not fatal.  When encrypted_text decrypts
\* and the stored message_hash differs from the recomputed one, decrypt
\* gives the warning and returns the full result, original_message being the
\* recovered plaintext.
C10_MismatchNotFatal ==
    (OwnDecrypt /\ HashAltered)
    => /\ last.status = "ok"
       /\ last.warning
       /\ last.result.original_message = origin.message

(***************************************************************************)
(* SpecEnvelope: what decrypt does with an envelope whose fields were      *)
(* removed or replaced after encrypt returned it.  Any detector            *)
(* configuration; the backend answers the two detection calls of one       *)
(* encrypt alike.  Every thread calls decrypt on the envelope held.        *)
(***************************************************************************)
\* record r without its field f
Without(r, f) == [k \in DOMAIN r \ {f} |-> r[k]]

\* a top-level field of the envelope is removed
DropField(f) ==
    /\ Untouched
    /\ envelope' = Without(envelope, f)
    /\ UNCHANGED <<password, detector, origin, signed, last, inflight>>

\* a field of the envelope's emotional_signature is removed
DropSignatureField(f) ==
    /\ Untouched
    /\ envelope' = [envelope EXCEPT !.emotional_signature = Without(@, f)]
    /\ UNCHANGED <<password, detector, origin, signed, last, inflight>>

\* the signature's primary_emotions replaced by another list (Love alone,
\* or the empty list when it was Love alone)
AlterPrimary ==
    /\ Untouched
    /\ envelope' = [envelope EXCEPT
                      !.emotional_signature.primary_emotions =
                          IF @ = <<L_Love>> THEN <<>> ELSE <<L_Love>>]
    /\ UNCHANGED <<password, detector, origin, signed, last, inflight>>

\* the backend answers a second question of one call as it answered the first
AnswersAlike(t, reply) == inflight[t].replies # <<>> => reply = inflight[t].replies[1]

NextEnvelope ==
    \/ \E t \in First : \E message \in TextsOf(t), nonce \in Nonces,
          reply \in Replies(gemini_model, emotion_model) :
          Encrypt(t, message, nonce, reply, reply)
    \/ \E f \in {"encrypted_text", "emotional_signature"} : DropField(f)
    \/ \E f \in {"primary_emotions", "message_hash"} : DropSignatureField(f)
    \/ AlterPrimary
    \/ AlterHash
    \/ \E t \in Threads, reply \in Replies(gemini_model, emotion_model) : Decrypt(t, reply)
    \/ \E t \in Threads : \E reply \in AnswersTo(t) :
          AnswersAlike(t, reply) /\ RemoteAnswer(t, reply)
    \/ \E t \in Threads : EncryptResume(t)
    \/ \E t \in Threads : \E nonce \in NoncesOf(t) : EncryptReturn(t, nonce)
    \/ \E t \in Threads : DecryptReturn(t)

SpecEnvelope == Init /\ [][NextEnvelope]_vars

\* the envelope decrypt was given lacks a field of the schema
LacksField ==
    \/ "encrypted_text" \notin DOMAIN envelope
    \/ "emotional_signature" \notin DOMAIN envelope
    \/ /\ "emotional_signature" \in DOMAIN envelope
       /\ \/ "primary_emotions" \notin DOMAIN envelope.emotional_signature
          \/ "message_hash" \notin DOMAIN envelope.emotional_signature

\* C11: malformed envelope.  decrypt of an envelope that lacks
\* encrypted_text, emotional_signature, or the signature's primary_emotions
\* or message_hash ends in an error and returns no result.
C11_MalformedEnvelopeRejected ==
    (last.op = "decrypt" /\ LacksField)
    => (last.status # "ok" /\ last.result = <<>>)

\* the canonical priority order of the labels
CanonicalOrder == <<L_Joy, L_Excitement, L_Anxiety, L_Fear, L_Anger, L_Sadness, L_Surprise, L_Love>>

\* the place of a label in the canonical order, every other label after these
CanonicalRank(label) ==
    IF label \in Range(CanonicalOrder)
    THEN CHOOSE i \in 1..Len(CanonicalOrder) : CanonicalOrder[i] = label
    ELSE Len(CanonicalOrder) + 1

\* the list detect_emotions returned to the last get_primary_emotions call
LastDetected == detect_emotions(gemini_model, emotion_model, last.message, last.replies[1])

\* the labels of a list whose confidence reaches 0.3
AtThreshold(detected) ==
    {detected[i][1] : i \in {j \in 1..Len(detected) : FloatLeq(F0_3, detected[j][2])}}

\* primary is the labels at the threshold, or the top-ranked label alone when
\* there is none, in canonical order
IsPrimaryOf(primary, detected) ==
    /\ IF AtThreshold(detected) # {}
       THEN Range(primary) = AtThreshold(detected)
       ELSE Len(detected) > 0 /\ primary = <<detected[1][1]>>
    /\ \A i, j \in 1..Len(primary) :
          i < j => CanonicalRank(primary[i]) <= CanonicalRank(primary[j])

\* C12: the list get_primary_emotions returns is exactly the labels of
\* detect_emotions(text) with confidence >= 0.3 (inclusive), or the single
\* top-ranked label when none reaches 0.3, listed in the canonical priority
\* order, every other label after the canonical ones.
C12_PrimaryEmotions ==
    (last.op = "primary" /\ last.status = "ok") => IsPrimaryOf(last.primary, LastDetected)

\* a confidence that is a number lies in [0.0, 1.0]
InUnitInterval(confidence) ==
    confidence # StrScore => (FloatLeq(Zero, confidence) /\ FloatLeq(confidence, F1_0))

\* C13: every confidence detect_emotions returns, and every confidence
\* stored in the emotion_scores of an envelope, lies in [0.0, 1.0],
\* whichever tier produced it and whatever the remote answer carries.
C13_ConfidenceInUnitInterval ==
    /\ last.op = "detect" =>
          \A i \in 1..Len(last.detected) : InUnitInterval(last.detected[i][2])
    /\ Encrypted =>
          \A label \in DOMAIN envelope.emotional_signature.emotion_scores :
              InUnitInterval(envelope.emotional_signature.emotion_scores[label])

(***************************************************************************)
(* Two encrypt calls on one cipher, while other threads call encrypt on it *)
(* too.                                                                    *)
(***************************************************************************)
\* cipher.encrypt(message) once more, by the same cipher, of the message of
\* the envelope held, the backend answering as it did to the first call;
\* Fernet draws nonce for this call.  The caller keeps the first envelope in
\* origin and holds the second when the call has returned.
EncryptAgain(t, nonce) ==
    /\ Encrypted
    /\ envelope = origin.envelope
    /\ MayCall(t)
    /\ IF gemini_model
       THEN /\ WaitsIn(t, [Idle EXCEPT !.op = "encrypt_again", !.message = origin.message,
                                       !.key = last.key, !.origin = origin,
                                       !.expect = last.replies])
            /\ UNCHANGED <<envelope, signed, last>>
       ELSE /\ \E out \in {encrypt(gemini_model, emotion_model, last.key, origin.message,
                                   nonce, last.replies[1], last.replies[2])} :
                  /\ envelope' = out.envelope
                  /\ signed' = signed \cup
                        {<<last.key, FernetParts(last.key, nonce,
                                                 StrEncode(origin.message).bytes)>>}
                  /\ last' = [last EXCEPT !.op = "encrypt_again", !.status = out.status]
            /\ UNCHANGED inflight
    /\ UNCHANGED <<password, detector, origin>>

NextRepeat ==
    \/ \E t \in Threads : \E message \in TextsOf(t), nonce \in NoncesOf(t),
          reply1, reply2 \in Replies(gemini_model, emotion_model) :
          Encrypt(t, message, nonce, reply1, reply2)
    \/ \E t \in First, nonce \in Nonces : EncryptAgain(t, nonce)
    \/ \E t \in Threads : \E reply \in AnswersTo(t) : RemoteAnswer(t, reply)
    \/ \E t \in Threads : EncryptResume(t)
    \/ \E t \in Threads : \E nonce \in NoncesOf(t) : EncryptReturn(t, nonce)

SpecRepeat == Init /\ [][NextRepeat]_vars

\* the second of two encrypt calls with the same message and backend answers
\* has returned
EncryptedAgain == last.op = "encrypt_again" /\ last.status = "ok"

\* C14 as stated: two encrypt calls on the same cipher with the same
\* plaintext and the same detector state return envelopes equal in every
\* field, encrypted_text and short_encrypted_text included.
C14_EnvelopePure == EncryptedAgain => envelope = origin.envelope

\* C14, amended: the two envelopes have the same emotional_signature and
\* encryption_method, and the same short_encrypted_text when their
\* encrypted_text is the same; encrypted_text depends on what Fernet draws.
C14_SignaturePure ==
    EncryptedAgain =>
        /\ envelope.emotional_signature = origin.envelope.emotional_signature
        /\ envelope.encryption_method = origin.envelope.encryption_method
        /\ envelope.encrypted_text = origin.envelope.encrypted_text
              => envelope.short_encrypted_text = origin.envelope.short_encrypted_text

\* two encrypt calls of one message gave two encrypted_text and two
\* short_encrypted_text under one signature
C14_Witness ==
    /\ EncryptedAgain
    /\ envelope.encrypted_text # origin.envelope.encrypted_text
    /\ envelope.short_encrypted_text # origin.envelope.short_encrypted_text
    /\ envelope.emotional_signature = origin.envelope.emotional_signature

\* decrypt has returned a result for an envelope that has the encrypted_text
\* encrypt returned
DecryptedSameText ==
    /\ OwnDecrypt
    /\ last.status = "ok"
    /\ envelope.encrypted_text = origin.envelope.encrypted_text

\* two decrypt results agree on the message and on the verified emotions
SameVerdict(result, other) ==
    /\ result.original_message = other.original_message
    /\ result.verified_emotion = other.verified_emotion

\* what decrypt returns for the envelope as encrypt returned it, the detector
\* answering as it did to the last call
HonestResult ==
    decrypt(gemini_model, emotion_model, last.key, signed, origin.envelope, last.replies[1]).result

\* C15: in decrypt's result detected_emotion is the stored primary_emotions
\* unchanged, and two envelopes with the same encrypted_text and different
\* emotional_signature contents give the same verified_emotion and the same
\* original_message.
C15_VerifiedIndependent ==
    DecryptedSameText =>
        /\ ("emotional_signature" \in DOMAIN envelope
              /\ "primary_emotions" \in DOMAIN envelope.emotional_signature)
              => last.result.detected_emotion = envelope.emotional_signature.primary_emotions
        /\ SameVerdict(last.result, HonestResult)

\* decrypt returned a result for an envelope whose stored primary_emotions
\* were altered: it reports them, and verifies other emotions
C15_Witness ==
    /\ DecryptedSameText
    /\ "emotional_signature" \in DOMAIN envelope
    /\ "primary_emotions" \in DOMAIN envelope.emotional_signature
    /\ envelope.emotional_signature.primary_emotions
          # origin.envelope.emotional_signature.primary_emotions
    /\ last.result.detected_emotion # last.result.verified_emotion
    /\ last.result.verified_emotion # <<>>

\* a step in which thread t calls decrypt, of the envelope held: the call
\* returns or raises at once, or is in flight after the step
DecryptCalled(t) ==
    /\ inflight[t] = Idle
    /\ \/ inflight'[t].op = "decrypt"
       \/ last.op # "decrypt" /\ last'.op = "decrypt" /\ inflight' = inflight

\* a step in which the decrypt call thread t has in flight returns or raises
DecryptReturned(t) == inflight[t].op = "decrypt" /\ inflight'[t] = Idle

\* in a step of a decrypt call the envelope given (the one held when the
\* call is made, the one the call in flight has) is after the step what it
\* was before
DecryptStep(t) ==
    /\ DecryptCalled(t) => /\ envelope' = envelope
                           /\ inflight'[t].op = "decrypt" => inflight'[t].envelope = envelope
    /\ DecryptReturned(t) => envelope' = inflight[t].envelope

\* C16: decrypt never mutates the envelope it is given: after any decrypt
\* call, successful, failed or with an integrity mismatch, every field of
\* the envelope and of its emotional_signature has the value it had before.
C16_DecryptKeepsEnvelope == [][\A t \in Threads : DecryptStep(t)]_vars

\* decrypt has failed on an envelope that is not the one encrypt returned
C16_Witness ==
    /\ last.op = "decrypt"
    /\ last.status # "ok"
    /\ envelope # <<>>
    /\ envelope # origin.envelope

(***************************************************************************)
(* Any sequence of calls on one cipher.                                    *)
(***************************************************************************)
\* every call made has returned and the callers have done with what was
\* returned; the cipher and its detector stay as they are for the next calls
NextCall ==
    /\ last.op # "none"
    /\ \A t \in Threads : inflight[t] = Idle
    /\ envelope' = <<>>
    /\ origin' = <<>>
    /\ signed' = {}
    /\ last' = NoCall
    /\ UNCHANGED <<password, detector, inflight>>

NextCalls == Next \/ NextCall

SpecCalls == Init /\ [][NextCalls]_vars

\* C17: after construction no sequence of detect_emotions,
\* get_primary_emotions, encrypt and decrypt calls, failing ones included,
\* changes the cipher's password (and so its cipher_suite) or the detector's
\* handles gemini_model and emotion_model.
C17_HandlesWriteOnce ==
    [][/\ password' = password
       /\ gemini_model' = gemini_model
       /\ emotion_model' = emotion_model]_vars

\* a detection call in which the configured backend raised has returned, and
\* the handle is still set
C17_Witness ==
    /\ last.op = "detect"
    /\ gemini_model \/ emotion_model
    /\ ~last.replies[1].ok

(***************************************************************************)
(* Detection calls alone: the request is sent, the backend answers or not, *)
(* the answer is worked into the result.                                   *)
(***************************************************************************)
NextWait ==
    \/ \E t \in Threads : \E text \in TextsOf(t), reply \in Replies(gemini_model, emotion_model) :
          DetectEmotions(t, text, reply)
    \/ \E t \in Threads : \E reply \in AnswersTo(t) : RemoteAnswer(t, reply)
    \/ \E t \in Threads : DetectReturn(t)
    \/ NextCall

\* the interpreter goes on running the code of a call that can go on; nothing
\* makes the remote backend answer
SpecWait == Init /\ [][NextWait]_vars /\ \A t \in Threads : WF_vars(DetectReturn(t))

\* thread t has a call in flight
InFlight(t) == inflight[t] # Idle

\* C18: every detection call eventually returns a result or an error: a
\* remote call that never answers is turned into a failure after a bounded
\* wait, so no call blocks for ever.
C18_CallsReturn == \A t \in Threads : InFlight(t) ~> ~InFlight(t)

(***************************************************************************)
(* The keyword classifier alone: a detector without a backend.             *)
(***************************************************************************)
\* texts for the keyword classifier: "", "a", "sad", "got", "job", "got job", "So THRILLED", "can't wait", "happy glad", "UPSET", "neutral", "thrilled ecstatic", "love, amazed", "won approval, overjoyed", "anxious worried", "happy glad cheerful", "looking forward", "cannot wait, so sad", "sad angry afraid", "Thrilled happy", "excited, Can't Wait", "can't wait got job happy glad sad down", "can not wait", "received promotion", "mad furious annoyed", "an offer"
FallbackTexts ==
    { <<>>,
      <<97>>,
      <<115, 97, 100>>,
      <<103, 111, 116>>,
      <<106, 111, 98>>,
      <<103, 111, 116, 32, 106, 111, 98>>,
      <<83, 111, 32, 84, 72, 82, 73, 76, 76, 69, 68>>,
      <<99, 97, 110, 39, 116, 32, 119, 97, 105, 116>>,
      <<104, 97, 112, 112, 121, 32, 103, 108, 97, 100>>,
      <<85, 80, 83, 69, 84>>,
      <<110, 101, 117, 116, 114, 97, 108>>,
      <<116, 104, 114, 105, 108, 108, 101, 100, 32, 101, 99, 115, 116, 97, 116, 105, 99>>,
      <<108, 111, 118, 101, 44, 32, 97, 109, 97, 122, 101, 100>>,
      <<119, 111, 110, 32, 97, 112, 112, 114, 111, 118, 97, 108, 44, 32, 111, 118, 101, 114, 106, 111, 121, 101, 100>>,
      <<97, 110, 120, 105, 111, 117, 115, 32, 119, 111, 114, 114, 105, 101, 100>>,
      <<104, 97, 112, 112, 121, 32, 103, 108, 97, 100, 32, 99, 104, 101, 101, 114, 102, 117, 108>>,
      <<108, 111, 111, 107, 105, 110, 103, 32, 102, 111, 114, 119, 97, 114, 100>>,
      <<99, 97, 110, 110, 111, 116, 32, 119, 97, 105, 116, 44, 32, 115, 111, 32, 115, 97, 100>>,
      <<115, 97, 100, 32, 97, 110, 103, 114, 121, 32, 97, 102, 114, 97, 105, 100>>,
      <<84, 104, 114, 105, 108, 108, 101, 100, 32, 104, 97, 112, 112, 121>>,
      <<101, 120, 99, 105, 116, 101, 100, 44, 32, 67, 97, 110, 39, 116, 32, 87, 97, 105, 116>>,
      <<99, 97, 110, 39, 116, 32, 119, 97, 105, 116, 32, 103, 111, 116, 32, 106, 111, 98, 32, 104, 97, 112, 112, 121, 32, 103, 108, 97, 100, 32, 115, 97, 100, 32, 100, 111, 119, 110>>,
      <<99, 97, 110, 32, 110, 111, 116, 32, 119, 97, 105, 116>>,
      <<114, 101, 99, 101, 105, 118, 101, 100, 32, 112, 114, 111, 109, 111, 116, 105, 111, 110>>,
      <<109, 97, 100, 32, 102, 117, 114, 105, 111, 117, 115, 32, 97, 110, 110, 111, 121, 101, 100>>,
      <<97, 110, 32, 111, 102, 102, 101, 114>> }

InitFallback == Init /\ ~gemini_model /\ ~emotion_model

NextFallback ==
    \/ \E t \in Threads, text \in FallbackTexts : DetectEmotions(t, text, NoReply)
    \/ \E t \in Threads, text \in FallbackTexts : GetPrimaryEmotions(t, text, NoReply)

SpecFallback == InitFallback /\ [][NextFallback]_vars

(***************************************************************************)
(* The keyword classifier block by block.  Every thread may be in a call   *)
(* of it on the one detector, each with its own locals; a thread runs one  *)
(* block of lines 210-300 at a time, and the blocks of two calls           *)
(* interleave.                                                             *)
(***************************************************************************)
\* the texts classified: "", "So THRILLED", "can't wait", "won approval, overjoyed", "UPSET", "can't wait got job happy glad sad down"
ClassifyTexts ==
    { <<>>,
      <<83, 111, 32, 84, 72, 82, 73, 76, 76, 69, 68>>,
      <<99, 97, 110, 39, 116, 32, 119, 97, 105, 116>>,
      <<119, 111, 110, 32, 97, 112, 112, 114, 111, 118, 97, 108, 44, 32, 111, 118, 101, 114, 106, 111, 121, 101, 100>>,
      <<85, 80, 83, 69, 84>>,
      <<99, 97, 110, 39, 116, 32, 119, 97, 105, 116, 32, 103, 111, 116, 32, 106, 111, 98, 32, 104, 97, 112, 112, 121, 32, 103, 108, 97, 100, 32, 115, 97, 100, 32, 100, 111, 119, 110>> }

\* thread t is in the keyword classifier, about to run the block stage
Classifies(t, stage) == inflight[t].op = "classify" /\ inflight[t].stage = stage

\* thread t has run a block: its emotion_scores and the block it runs next
Classified(t, emotion_scores, stage) ==
    /\ inflight' = [inflight EXCEPT ![t].emotion_scores = emotion_scores, ![t].stage = stage]
    /\ UNCHANGED <<password, detector, envelope, origin, signed, last>>

\* a variant of ClassifyStart in which emotion_scores is not made anew: the
\* scores of the call that returned last are still in it
ClassifyStart_KeepScores(t, text) ==
    /\ inflight[t] = Idle
    /\ inflight' = [inflight EXCEPT ![t] =
                      [Idle EXCEPT
                         !.op = "classify", !.stage = "dual", !.message = text,
                         !.emotion_scores =
                            [i \in 1..Len(last.detected) |->
                                <<Lower(last.detected[i][1]), last.detected[i][2]>>]]]
    /\ UNCHANGED <<password, detector, envelope, origin, signed, last>>

\* detector.detect_emotions(text) with no backend (line 127), lines 210-238:
\* the tables and an empty emotion_scores, new in every call
ClassifyStart(t, text) ==
    /\ inflight[t] = Idle
    /\ inflight' = [inflight EXCEPT ![t] =
                      [Idle EXCEPT
                         !.op = "classify", !.stage = "dual", !.message = text,
                         !.emotion_scores = <<>>]]
    /\ UNCHANGED <<password, detector, envelope, origin, signed, last>>

\* lines 241-247
ClassifyDual(t) ==
    /\ Classifies(t, "dual")
    /\ Classified(t, DualKeywordScores(dual_emotion_keywords, Lower(inflight[t].message), 1,
                                       inflight[t].emotion_scores), "phrases")

\* lines 250-258
ClassifyPhrases(t) ==
    /\ Classifies(t, "phrases")
    /\ Classified(t, PhraseScores(excitement_phrases, Lower(inflight[t].message), 1,
                                  inflight[t].emotion_scores), "outcomes")

\* lines 261-267
ClassifyOutcomes(t) ==
    /\ Classifies(t, "outcomes")
    /\ Classified(t, OutcomeScores(Lower(inflight[t].message), inflight[t].emotion_scores),
                  "keywords")

\* lines 270-286
ClassifyKeywords(t) ==
    /\ Classifies(t, "keywords")
    /\ Classified(t, KeywordScores(emotion_keywords, Range(dual_emotion_keywords),
                                   Lower(inflight[t].message), 1,
                                   inflight[t].emotion_scores), "rank")

\* lines 289-300: the call returns its ranked list; result keeps the text
\* and the list of the call of the classifier that returned before it
ClassifyReturn(t) ==
    /\ Classifies(t, "rank")
    /\ last' = [NoCall EXCEPT
                  !.op = "classify", !.message = inflight[t].message,
                  !.detected = DetectedOf(inflight[t].emotion_scores),
                  !.result = IF last.op \in {"detect", "classify"}
                             THEN <<last.message, last.detected>> ELSE <<>>]
    /\ Returns(t)
    /\ UNCHANGED <<password, detector, envelope, origin, signed>>

NextKeyword ==
    \/ \E t \in Threads, text \in ClassifyTexts : DetectEmotions(t, text, NoReply)
    \/ \E t \in Threads, text \in ClassifyTexts : ClassifyStart(t, text)
    \/ \E t \in Threads : ClassifyDual(t)
    \/ \E t \in Threads : ClassifyPhrases(t)
    \/ \E t \in Threads : ClassifyOutcomes(t)
    \/ \E t \in Threads : ClassifyKeywords(t)
    \/ \E t \in Threads : ClassifyReturn(t)

SpecKeyword == InitFallback /\ [][NextKeyword]_vars

\* a call of the classifier returned, and the call that returned before it
\* was on the same text
SameTextAgain ==
    /\ last.op = "classify"
    /\ last.result # <<>>
    /\ last.result[1] = last.message

\* C19: fallback determinism.  With no backend, a call of the keyword
\* classifier on a text returns the list the call before it on that text
\* returned (same labels, same confidences, same order), whichever thread
\* made either call, whatever calls were made before, and however the
\* blocks of the calls in progress interleaved.
C19_FallbackDeterministic ==
    SameTextAgain => last.detected = last.result[2]

\* a text with two labels was classified twice with the same list, the
\* second call returning while another call is midway with scores of its own
C19_Witness ==
    /\ SameTextAgain
    /\ Len(last.detected) = 2
    /\ last.detected = last.result[2]
    /\ \E u \in Threads : Classifies(u, "keywords") /\ inflight[u].emotion_scores # <<>>

\* one of the words in a list is in the text
AnyIn(words, text_lower) == \E k \in 1..Len(words) : Contains(text_lower, words[k])

\* the lowered text has a keyword of a label, a dual keyword, an excitement
\* phrase, or an outcome word together with a context word
MatchesAny(text_lower) ==
    \/ \E e \in 1..Len(emotion_keywords) : AnyIn(emotion_keywords[e][2], text_lower)
    \/ AnyIn(dual_emotion_keywords, text_lower)
    \/ AnyIn(excitement_phrases, text_lower)
    \/ AnyIn(positive_outcomes, text_lower) /\ AnyIn(outcome_context, text_lower)

\* the labels of a ranked list
LabelsOf(detected) == {detected[i][1] : i \in 1..Len(detected)}

\* C20: under the keyword classifier a text that matches nothing (the empty
\* text included) gives exactly [(Neutral, 0.5)] and primary emotions
\* [Neutral]; a text that matches something has Neutral neither in the
\* detected list nor in the primary emotions.
C20_NeutralIffNoMatch ==
    /\ last.op = "detect" =>
          IF MatchesAny(Lower(last.message))
          THEN L_Neutral \notin LabelsOf(last.detected)
          ELSE last.detected = <<<<L_Neutral, F0_5>>>>
    /\ last.op = "primary" =>
          IF MatchesAny(Lower(last.message))
          THEN L_Neutral \notin Range(last.primary)
          ELSE last.primary = <<L_Neutral>>

\* a text with an outcome word and no context word has Neutral alone as its
\* primary emotion
C20_Witness ==
    /\ last.op = "primary"
    /\ AnyIn(positive_outcomes, Lower(last.message))
    /\ last.primary = <<L_Neutral>>

\* the lowered text has a dual keyword or an excitement phrase
HasDualOrPhrase(text_lower) ==
    AnyIn(dual_emotion_keywords, text_lower) \/ AnyIn(excitement_phrases, text_lower)

\* label a is listed, and before label b
ListedBefore(list, a, b) ==
    \E i, j \in 1..Len(list) : i < j /\ list[i] = a /\ list[j] = b

\* C21: under the keyword classifier with threshold 0.3, every text with a
\* dual keyword (thrilled, ecstatic, overjoyed) or an excitement phrase
\* (can't wait, cannot wait, can not wait, looking forward) has both Joy and
\* Excitement in its primary emotions, Joy before Excitement.
C21_JoyAndExcitement ==
    (last.op = "primary" /\ HasDualOrPhrase(Lower(last.message)))
        => ListedBefore(last.primary, L_Joy, L_Excitement)

\* a text with a phrase and no dual keyword, whose joy is at the threshold,
\* has Joy before Excitement among three primary emotions
C21_Witness ==
    /\ last.op = "primary"
    /\ AnyIn(excitement_phrases, Lower(last.message))
    /\ ~AnyIn(dual_emotion_keywords, Lower(last.message))
    /\ Len(last.primary) = 3
    /\ ListedBefore(last.primary, L_Joy, L_Excitement)

\* the letters, the digits and the symbols !@#$%^&*()_+-=[]{}|;:,.<>?
ShortAlphabet ==
    (97..122) \cup (65..90) \cup (48..57)
    \cup {33, 64, 35, 36, 37, 94, 38, 42, 40, 41, 95, 43, 45, 61, 91, 93, 123, 125,
          124, 59, 58, 44, 46, 60, 62, 63}

\* the short text of an envelope: 16 characters of the alphabet, made from
\* encrypted_text
ShortTextOf(env) ==
    /\ Len(env.short_encrypted_text) = 16
    /\ \A i \in 1..16 : env.short_encrypted_text[i] \in ShortAlphabet
    /\ env.short_encrypted_text = generate_short_encrypted_text(env.encrypted_text, 16)

\* C22: in every envelope encrypt returns, short_encrypted_text is exactly
\* 16 characters of the fixed alphabet of letters, digits and symbols, and a
\* function of encrypted_text alone: two envelopes with equal encrypted_text
\* have equal short_encrypted_text.
C22_ShortText ==
    /\ (Encrypted \/ EncryptedAgain) => ShortTextOf(envelope)
    /\ (EncryptedAgain /\ envelope.encrypted_text = origin.envelope.encrypted_text)
          => envelope.short_encrypted_text = origin.envelope.short_encrypted_text

\* two encrypt calls returned the same encrypted_text, of a message that is
\* not empty, and the same short text
C22_Witness ==
    /\ EncryptedAgain
    /\ origin.message # <<>>
    /\ envelope.encrypted_text = origin.envelope.encrypted_text
    /\ envelope.short_encrypted_text = origin.envelope.short_encrypted_text

\* a ranked list goes by confidence descending, labels of equal confidence in
\* the canonical order
RankedCanonically(detected) ==
    \A i, j \in 1..Len(detected) :
        i < j => \/ FloatLess(detected[j][2], detected[i][2])
                 \/ /\ detected[i][2] = detected[j][2]
                    /\ CanonicalRank(detected[i][1]) <= CanonicalRank(detected[j][1])

\* C23: the list of the keyword classifier is sorted by confidence
\* descending, and two labels of equal confidence appear in the canonical
\* order Joy, Excitement, Anxiety, Fear, Anger, Sadness, Surprise, Love.
C23_TiesInCanonicalOrder ==
    last.op = "detect" => RankedCanonically(last.detected)

\* the lowered text scores from the keyword lists only: no dual keyword, no
\* phrase, no outcome word with a context word
OnlyKeywords(text_lower) ==
    /\ ~HasDualOrPhrase(text_lower)
    /\ ~(AnyIn(positive_outcomes, text_lower) /\ AnyIn(outcome_context, text_lower))

\* the confidence of n matching keywords, 0 for none
KeywordConfidence(n) == IF n = 0 THEN Zero ELSE BaseConfidence(n)


\* the confidence a label has after its n-th match is 0.4 for n = 1, and for
\* n >= 2 the n-th match has added less than the match before it
DiminishingAt(n, confidence) ==
    /\ n = 1 => confidence = F0_4
    /\ n >= 2 => FloatLess(FloatSub(confidence, KeywordConfidence(n - 1)),
                            FloatSub(KeywordConfidence(n - 1), KeywordConfidence(n - 2)))

\* the claim for the entry of one label of the keyword table
DiminishingFor(entry, text_lower, detected) ==
    (CountMatches(entry[2], text_lower, {}) >= 1 /\ HasKey(detected, Capitalize(entry[1])))
        => DiminishingAt(CountMatches(entry[2], text_lower, {}),
                         GetKey(detected, Capitalize(entry[1])))

\* C24: a label scored only from its keyword list has confidence 0.4 for
\* one matching keyword, each further match adds less than the match before
\* it, and no confidence of the keyword classifier exceeds 0.95.
C24_DiminishingIncrements ==
    last.op = "detect" =>
        /\ \A i \in 1..Len(last.detected) : FloatLeq(last.detected[i][2], F0_95)
        /\ OnlyKeywords(Lower(last.message)) =>
              \A e \in 1..Len(emotion_keywords) :
                  DiminishingFor(emotion_keywords[e], Lower(last.message), last.detected)

\* C25: in every envelope encrypt returns, every label of primary_emotions
\* is a key of emotion_scores, also when the backend answers the two
\* detection calls of encrypt differently or fails on one of them only.
C25_PrimaryAmongScores ==
    Encrypted =>
        \A label \in Range(envelope.emotional_signature.primary_emotions) :
            label \in DOMAIN envelope.emotional_signature.emotion_scores

(***************************************************************************)
(* Encrypt and decrypt on a cipher whose detector has no backend.          *)
(***************************************************************************)
\* the longest text of the keyword classifier that is encrypted
MaxRoundTripLen == 5

\* the messages encrypted: short texts of the keyword classifier, and Messages
RoundTripTexts == {text \in FallbackTexts : Len(text) <= MaxRoundTripLen} \cup Messages

NextRoundTrip ==
    \/ \E t \in Threads, message \in RoundTripTexts, nonce \in Nonces :
          Encrypt(t, message, nonce, NoReply, NoReply)
    \/ AlterPrimary
    \/ \E t \in Threads : Decrypt(t, NoReply)
    \/ \E t \in Threads, other \in Passwords : DecryptWithOtherPassword(t, other, NoReply)

SpecRoundTrip == InitFallback /\ [][NextRoundTrip]_vars

\* C26: with no backend, decrypt of an unmodified envelope by the cipher
\* that produced it returns verified_emotion equal to detected_emotion, the
\* same labels in the same order, for every message.
C26_VerifiedEqualsDetected ==
    HonestDecrypt =>
        /\ last.status = "ok"
        /\ last.result.verified_emotion = last.result.detected_emotion

\* an envelope of a message with several primary emotions was decrypted
C26_Witness ==
    /\ HonestDecrypt
    /\ last.status = "ok"
    /\ Len(last.result.verified_emotion) >= 2
    /\ last.result.original_message = origin.message

\* the emotional_signature decrypt reads from the envelope held: {} when the
\* envelope has none
SignatureRead ==
    IF "emotional_signature" \in DOMAIN envelope THEN envelope.emotional_signature ELSE <<>>

\* decrypt was called on an envelope with the encrypted_text encrypt
\* returned, by the cipher that encrypted
DecryptOfToken ==
    /\ OwnDecrypt
    /\ "encrypted_text" \in DOMAIN envelope
    /\ envelope.encrypted_text = origin.envelope.encrypted_text

\* the signature read has a message_hash, and it is not the hash of the
\* message
HashDiffers ==
    /\ "message_hash" \in DOMAIN SignatureRead
    /\ SignatureRead.message_hash # message_hash(StrEncode(origin.message).bytes)

\* C27 as stated: decrypt warns exactly when the signature has a
\* message_hash that differs from the hash of the recovered plaintext; when
\* the signature, or its message_hash, is absent, decrypt warns of nothing
\* and the result it returns has the plaintext and detected_emotion == [].
C27_NoHashNoEmotions ==
    DecryptOfToken =>
        /\ last.warning <=> HashDiffers
        /\ ("message_hash" \notin DOMAIN SignatureRead /\ last.status = "ok") =>
              /\ last.result.original_message = origin.message
              /\ last.result.detected_emotion = <<>>

\* C27, amended: decrypt warns exactly when the signature has a message_hash
\* that differs from the hash of the recovered plaintext, so never when the
\* signature or its message_hash is absent; a result it returns then has the
\* plaintext, and as detected_emotion the stored primary_emotions, [] when
\* the signature or its primary_emotions is absent.
C27_WarningIffHashDiffers ==
    DecryptOfToken =>
        /\ last.warning <=> HashDiffers
        /\ ("message_hash" \notin DOMAIN SignatureRead /\ last.status = "ok") =>
              /\ last.result.original_message = origin.message
              /\ last.result.detected_emotion =
                    IF "primary_emotions" \in DOMAIN SignatureRead
                    THEN SignatureRead.primary_emotions ELSE <<>>

\* decrypt returned, without a warning, the stored primary emotions of a
\* signature that has no message_hash
C27_Witness ==
    /\ DecryptOfToken
    /\ last.status = "ok"
    /\ "emotional_signature" \in DOMAIN envelope
    /\ "message_hash" \notin DOMAIN SignatureRead
    /\ ~last.warning
    /\ last.result.detected_emotion # <<>>

=============================================================================
